---- MODULE Spec2Model ----
(***************************************************************************)
(* IgnisX: delegated authorization and rebalance orchestration.            *)
(*                                                                         *)
(* The model follows the three Solidity contracts                          *)
(*   LitProtocolDelegate  (session authority),                             *)
(*   PortfolioManager     (policy / portfolio store),                      *)
(*   CrossChainRebalancer (rebalance orchestrator + price registry).       *)
(* Every external function is an operator from the contract storage and    *)
(* the call's inputs to a result [ok, err, st]: a require that fails       *)
(* reverts, i.e. returns the storage it was given.  An action is one       *)
(* transaction: it applies the operator; a reverted transaction leaves     *)
(* every variable as it was, a successful one is recorded in ret.          *)
(* keccak256 is taken to be collision free: a hash is the tuple hashed.    *)
(* LitProtocolService, the signer outside the chain, is modelled by its    *)
(* session object and the position of each call in flight.                 *)
(***************************************************************************)
EXTENDS Integers, Sequences, FiniteSets, TLC

VARIABLES
    delegationSessions,   \* LitProtocolDelegate: sessionId -> DelegationSession
    userNonces,           \* LitProtocolDelegate: user -> next session counter
    usedSignatures,       \* LitProtocolDelegate: set of signatures marked used
    portfolios,           \* PortfolioManager: user -> Portfolio
    delegationPolicies,   \* PortfolioManager: user -> DelegationPolicy
    userBalances,         \* PortfolioManager: user -> token -> balance
    rebalanceExecuted,    \* PortfolioManager: the RebalanceExecuted events
    rebalanceActions,     \* CrossChainRebalancer: actionId -> RebalanceAction
    authorizedAgents,     \* CrossChainRebalancer: set of authorized agents
    chainTokenPrices,     \* CrossChainRebalancer: <<chainId, token>> -> price
    actionExecuted,       \* CrossChainRebalancer: RebalanceActionExecuted events
    now,                  \* block.timestamp
    blockNumber,          \* block.number
    ret,                  \* the last transaction that did not revert
    session,              \* LitProtocolService: the session object of the signer
    signing,              \* LitProtocolService: caller -> its call in flight
    signedOperations      \* LitProtocolService: the operations signed, in order

vars == <<delegationSessions, userNonces, usedSignatures, portfolios,
          delegationPolicies, userBalances, rebalanceExecuted,
          rebalanceActions, authorizedAgents, chainTokenPrices,
          actionExecuted, now, blockNumber, ret, session, signing,
          signedOperations>>

litVars == <<delegationSessions, userNonces, usedSignatures>>
pmVars  == <<portfolios, delegationPolicies, userBalances, rebalanceExecuted>>
rbVars  == <<rebalanceActions, authorizedAgents, chainTokenPrices,
             actionExecuted>>
svcVars == <<session, signing, signedOperations>>

----------------------------------------------------------------------------
(* Identities *)

Null     == "0x0"          \* address(0)
Admin    == "admin"        \* Ownable owner() of each contract
Agent    == "agent"        \* the autopilot agent
Eve      == "eve"          \* an identity with no role
Rebalancer == "rebalancer" \* address of the CrossChainRebalancer contract
Garbage  == "0xdead"       \* what ecrecover yields for a foreign digest
NullHash == "0x00"

Users == {"u1", "u2"}

----------------------------------------------------------------------------
(* Bounds of the exploration *)

StartTime     == 7200      \* block.timestamp after deployment
BlockInterval == 1800      \* seconds between two blocks
MaxBlocks     == 2         \* blocks mined after deployment
MaxSessions   == 2         \* sessions created in a run
MaxOps        == 2         \* largest maxOperations of a session
MaxUsed       == 2         \* signatures consumed in a run
MaxBatch      == 2         \* longest batch

----------------------------------------------------------------------------
(* Call results *)

Revert(st, e) == [ok |-> FALSE, err |-> e, st |-> st]

\* type(uint256).max, brought down to the integers the checker computes
\* with; every time, amount and percentage of the model stays far below it
MaxUint256 == 1073741823

\* a + b on uint256 is checked: it reverts with Panic(0x11) past the maximum
Overflows(a, b) == a > MaxUint256 - b

Panic == "Panic(0x11)"

Return(st) == [ok |-> TRUE, err |-> "", st |-> st]

----------------------------------------------------------------------------
(* LitProtocolDelegate: storage *)

LitState ==
    [delegationSessions |-> delegationSessions,
     userNonces         |-> userNonces,
     usedSignatures     |-> usedSignatures]

ZeroSession ==
    [user |-> Null, delegate |-> Null, nonce |-> 0, expiry |-> 0,
     policyHash |-> NullHash, isActive |-> FALSE,
     maxOperations |-> 0, operationsUsed |-> 0]

\* delegationSessions[sessionId] of a Solidity mapping: zero when never written
SessionAt(L, sid) ==
    IF sid \in DOMAIN L.delegationSessions
    THEN L.delegationSessions[sid] ELSE ZeroSession

\* keccak256(abi.encodePacked(user, delegate, nonce, block.timestamp))
SessionId(user, delegate, nonce, t) == <<user, delegate, nonce, t>>

UnknownSession == SessionId(Null, Null, 0, 0)

----------------------------------------------------------------------------
(* Signatures.  A signature is the pair (key that signed, digest signed);  *)
(* ECDSA recovery over the digest signed yields the signer, over any other *)
(* digest an unrelated address; a malformed signature makes recover revert *)

Sign(signer, digest) == [signer |-> signer, msg |-> digest]

Malformed == [signer |-> Null, msg |-> <<>>]

MessageHash(op, policyHash) ==
    <<op.user, op.delegate, op.nonce, op.operationType, op.data,
      op.timestamp, policyHash>>

toEthSignedMessageHash(h) == <<"\\x19Ethereum Signed Message:\\n32", h>>

recover(digest, sig) == IF sig.msg = digest THEN sig.signer ELSE Garbage

----------------------------------------------------------------------------
(* LitProtocolDelegate: functions *)

\* validSession without the expiry require
validSession_IgnoresExpiry(L, t, sid) ==
    LET s == SessionAt(L, sid) IN
    IF ~s.isActive THEN "Session not active"
    ELSE IF ~(s.operationsUsed < s.maxOperations) THEN "Max operations exceeded"
    ELSE ""

\* validSession without the require on operationsUsed
validSession_NoLimit(L, t, sid) ==
    LET s == SessionAt(L, sid) IN
    IF ~s.isActive THEN "Session not active"
    ELSE IF ~(t <= s.expiry) THEN "Session expired"
    ELSE ""

\* validSession that treats the expiry instant as expired
validSession_Exclusive(L, t, sid) ==
    LET s == SessionAt(L, sid) IN
    IF ~s.isActive THEN "Session not active"
    ELSE IF ~(t < s.expiry) THEN "Session expired"
    ELSE IF ~(s.operationsUsed < s.maxOperations) THEN "Max operations exceeded"
    ELSE ""

\* modifier validSession: "" when the session passes, else the revert reason
validSession(L, t, sid) ==
    LET s == SessionAt(L, sid) IN
    IF ~s.isActive THEN "Session not active"
    ELSE IF ~(t <= s.expiry) THEN "Session expired"
    ELSE IF ~(s.operationsUsed < s.maxOperations) THEN "Max operations exceeded"
    ELSE ""

isSessionValid(L, t, sid) ==
    LET s == SessionAt(L, sid) IN
    s.isActive /\ t <= s.expiry /\ s.operationsUsed < s.maxOperations

\* createDelegationSession that reads the user's counter without advancing it
createDelegationSession_CounterStays(L, t, user, delegate, expiry, policyHash, maxOperations) ==
    IF user = Null THEN Revert(L, "Invalid user")
    ELSE IF delegate = Null THEN Revert(L, "Invalid delegate")
    ELSE IF ~(expiry > t) THEN Revert(L, "Invalid expiry")
    ELSE IF ~(maxOperations > 0) THEN Revert(L, "Invalid max operations")
    ELSE
      LET nonce == L.userNonces[user]
          sid   == SessionId(user, delegate, nonce, t)
          s     == [user |-> user, delegate |-> delegate, nonce |-> nonce,
                    expiry |-> expiry, policyHash |-> policyHash,
                    isActive |-> TRUE, maxOperations |-> maxOperations,
                    operationsUsed |-> 0]
      IN [ok |-> TRUE, err |-> "", sessionId |-> sid,
          st |-> [L EXCEPT !.delegationSessions = (sid :> s) @@ @]]

createDelegationSession(L, t, user, delegate, expiry, policyHash, maxOperations) ==
    IF user = Null THEN Revert(L, "Invalid user")
    ELSE IF delegate = Null THEN Revert(L, "Invalid delegate")
    ELSE IF ~(expiry > t) THEN Revert(L, "Invalid expiry")
    ELSE IF ~(maxOperations > 0) THEN Revert(L, "Invalid max operations")
    ELSE
      LET nonce == L.userNonces[user]
          sid   == SessionId(user, delegate, nonce, t)
          s     == [user |-> user, delegate |-> delegate, nonce |-> nonce,
                    expiry |-> expiry, policyHash |-> policyHash,
                    isActive |-> TRUE, maxOperations |-> maxOperations,
                    operationsUsed |-> 0]
      IN [ok |-> TRUE, err |-> "", sessionId |-> sid,
          st |-> [L EXCEPT !.userNonces[user] = @ + 1,
                           !.delegationSessions = (sid :> s) @@ @]]

\* revokeDelegationSession without the require on the caller
revokeDelegationSession_AnyCaller(L, sender, sid) ==
    LET s == SessionAt(L, sid) IN
    IF ~s.isActive THEN Revert(L, "Session not active")
    ELSE Return([L EXCEPT !.delegationSessions[sid].isActive = FALSE])

revokeDelegationSession(L, sender, sid) ==
    LET s == SessionAt(L, sid) IN
    IF ~(s.user = sender \/ sender = Admin) THEN Revert(L, "Not authorized")
    ELSE IF ~s.isActive THEN Revert(L, "Session not active")
    ELSE Return([L EXCEPT !.delegationSessions[sid].isActive = FALSE])

\* verifySignedOperation without the used-signature require
verifySignedOperation_NoReplayCheck(L, t, sid, op) ==
    LET s == SessionAt(L, sid)
        m == validSession(L, t, sid)
        ethSignedMessageHash ==
            toEthSignedMessageHash(MessageHash(op, s.policyHash))
    IN
    IF m # "" THEN Revert(L, m)
    ELSE IF op.user # s.user THEN Revert(L, "Invalid user")
    ELSE IF op.delegate # s.delegate THEN Revert(L, "Invalid delegate")
    ELSE IF op.nonce # s.nonce THEN Revert(L, "Invalid nonce")
    ELSE IF op.signature = Malformed THEN Revert(L, "ECDSA: invalid signature")
    ELSE [ok |-> TRUE, err |-> "",
          valid |-> (recover(ethSignedMessageHash, op.signature) = s.user),
          st |-> [L EXCEPT !.usedSignatures = @ \cup {op.signature}]]

\* verifySignedOperation that checks the signature's mark without setting it
verifySignedOperation_NoMark(L, t, sid, op) ==
    LET s == SessionAt(L, sid)
        m == validSession(L, t, sid)
        ethSignedMessageHash ==
            toEthSignedMessageHash(MessageHash(op, s.policyHash))
    IN
    IF m # "" THEN Revert(L, m)
    ELSE IF op.user # s.user THEN Revert(L, "Invalid user")
    ELSE IF op.delegate # s.delegate THEN Revert(L, "Invalid delegate")
    ELSE IF op.nonce # s.nonce THEN Revert(L, "Invalid nonce")
    ELSE IF op.signature = Malformed THEN Revert(L, "ECDSA: invalid signature")
    ELSE IF op.signature \in L.usedSignatures
         THEN Revert(L, "Signature already used")
    ELSE [ok |-> TRUE, err |-> "",
          valid |-> (recover(ethSignedMessageHash, op.signature) = s.user),
          st |-> L]

verifySignedOperation(L, t, sid, op) ==
    LET s == SessionAt(L, sid)
        m == validSession(L, t, sid)
        ethSignedMessageHash ==
            toEthSignedMessageHash(MessageHash(op, s.policyHash))
    IN
    IF m # "" THEN Revert(L, m)
    ELSE IF op.user # s.user THEN Revert(L, "Invalid user")
    ELSE IF op.delegate # s.delegate THEN Revert(L, "Invalid delegate")
    ELSE IF op.nonce # s.nonce THEN Revert(L, "Invalid nonce")
    ELSE IF op.signature = Malformed THEN Revert(L, "ECDSA: invalid signature")
    ELSE IF op.signature \in L.usedSignatures
         THEN Revert(L, "Signature already used")
    ELSE [ok |-> TRUE, err |-> "",
          valid |-> (recover(ethSignedMessageHash, op.signature) = s.user),
          st |-> [L EXCEPT !.usedSignatures = @ \cup {op.signature}]]

\* executeOperation without onlyDelegate
executeOperation_AnyCaller(L, t, sender, sid, op) ==
    LET v == verifySignedOperation(L, t, sid, op) IN
    IF ~v.ok THEN Revert(L, v.err)
    ELSE IF ~v.valid THEN Revert(L, "Invalid signature")
    ELSE Return([v.st EXCEPT !.delegationSessions[sid].operationsUsed = @ + 1])

executeOperation(L, t, sender, sid, op) ==
    LET v == verifySignedOperation(L, t, sid, op) IN
    IF sender # SessionAt(L, sid).delegate
    THEN Revert(L, "Not authorized delegate")
    ELSE IF ~v.ok THEN Revert(L, v.err)
    ELSE IF ~v.valid THEN Revert(L, "Invalid signature")
    ELSE Return([v.st EXCEPT !.delegationSessions[sid].operationsUsed = @ + 1])

\* the for loop of batchExecuteOperations from index i on; on a failed
\* require it stops with the storage as written so far
RECURSIVE batchLoop(_, _, _, _, _)
batchLoop(L, t, sid, operations, i) ==
    IF i > Len(operations) THEN Return(L)
    ELSE LET v == verifySignedOperation(L, t, sid, operations[i]) IN
         IF ~v.ok THEN Revert(v.st, v.err)
         ELSE IF ~v.valid THEN Revert(v.st, "Invalid signature")
         ELSE batchLoop(v.st, t, sid, operations, i + 1)

\* batchExecuteOperations keeping what the loop wrote before a failed require
batchExecuteOperations_NoRollback(L, t, sender, sid, operations, nHashes) ==
    LET s == SessionAt(L, sid)
        r == batchLoop(L, t, sid, operations, 1)
    IN
    IF sender # s.delegate THEN Revert(L, "Not authorized delegate")
    ELSE IF Len(operations) # nHashes THEN Revert(L, "Invalid input length")
    ELSE IF ~(Len(operations) > 0) THEN Revert(L, "No operations provided")
    ELSE IF ~(s.operationsUsed + Len(operations) <= s.maxOperations)
         THEN Revert(L, "Exceeds max operations")
    ELSE IF ~r.ok THEN Revert(r.st, r.err)
    ELSE Return([r.st EXCEPT !.delegationSessions[sid].operationsUsed =
                                 @ + Len(operations)])

\* batchExecuteOperations without the require on the room left
batchExecuteOperations_NoRoomCheck(L, t, sender, sid, operations, nHashes) ==
    LET s == SessionAt(L, sid)
        r == batchLoop(L, t, sid, operations, 1)
    IN
    IF sender # s.delegate THEN Revert(L, "Not authorized delegate")
    ELSE IF Len(operations) # nHashes THEN Revert(L, "Invalid input length")
    ELSE IF ~(Len(operations) > 0) THEN Revert(L, "No operations provided")
    ELSE IF ~r.ok THEN Revert(L, r.err)
    ELSE Return([r.st EXCEPT !.delegationSessions[sid].operationsUsed =
                                 @ + Len(operations)])

batchExecuteOperations(L, t, sender, sid, operations, nHashes) ==
    LET s == SessionAt(L, sid)
        r == batchLoop(L, t, sid, operations, 1)
    IN
    IF sender # s.delegate THEN Revert(L, "Not authorized delegate")
    ELSE IF Len(operations) # nHashes THEN Revert(L, "Invalid input length")
    ELSE IF ~(Len(operations) > 0) THEN Revert(L, "No operations provided")
    ELSE IF ~(s.operationsUsed + Len(operations) <= s.maxOperations)
         THEN Revert(L, "Exceeds max operations")
    ELSE IF ~r.ok THEN Revert(L, r.err)
    ELSE Return([r.st EXCEPT !.delegationSessions[sid].operationsUsed =
                                 @ + Len(operations)])

----------------------------------------------------------------------------
(* PortfolioManager: storage *)

PMState ==
    [portfolios         |-> portfolios,
     delegationPolicies |-> delegationPolicies,
     userBalances       |-> userBalances,
     rebalanceExecuted  |-> rebalanceExecuted]

ZeroPortfolio ==
    [assets |-> <<>>, totalValue |-> 0, lastRebalance |-> 0, isActive |-> FALSE]

ZeroPolicy ==
    [delegate |-> Null, maxSlippage |-> 0, maxRebalanceAmount |-> 0,
     rebalanceThreshold |-> 0, cooldownPeriod |-> 0, isActive |-> FALSE]

Asset(token, chainId, pct) ==
    [tokenAddress |-> token, chainId |-> chainId,
     targetPercentage |-> pct, isActive |-> TRUE]

----------------------------------------------------------------------------
(* PortfolioManager: functions *)

\* modifier onlyPortfolioOwner
\* the modifier onlyPortfolioOwner letting every caller through
onlyPortfolioOwner_Anyone(sender, user) == TRUE

onlyPortfolioOwner(sender, user) == sender = user \/ sender = Admin

\* checkAssets with a total that may exceed 100%
RECURSIVE checkAssets_AtLeast(_, _, _)
checkAssets_AtLeast(assets, i, totalPercentage) ==
    IF i > Len(assets)
    THEN IF totalPercentage >= 10000 THEN ""
         ELSE "Total percentage must equal 100%"
    ELSE IF assets[i].tokenAddress = Null THEN "Invalid token address"
    ELSE IF ~(assets[i].targetPercentage > 0)
         THEN "Target percentage must be > 0"
    ELSE checkAssets_AtLeast(assets, i + 1,
                             totalPercentage + assets[i].targetPercentage)

\* the validation loop of createPortfolio / updatePortfolio from index i on,
\* totalPercentage being the sum so far; then the require on the total
RECURSIVE checkAssets(_, _, _)
checkAssets(assets, i, totalPercentage) ==
    IF i > Len(assets)
    THEN IF totalPercentage = 10000 THEN ""
         ELSE "Total percentage must equal 100%"
    ELSE IF assets[i].tokenAddress = Null THEN "Invalid token address"
    ELSE IF ~(assets[i].targetPercentage > 0)
         THEN "Target percentage must be > 0"
    ELSE checkAssets(assets, i + 1, totalPercentage + assets[i].targetPercentage)

createPortfolio(P, sender, user, assets) ==
    LET m == checkAssets(assets, 1, 0) IN
    IF ~onlyPortfolioOwner(sender, user) THEN Revert(P, "Not portfolio owner")
    ELSE IF P.portfolios[user].isActive THEN Revert(P, "Portfolio already exists")
    ELSE IF ~(Len(assets) > 0)
         THEN Revert(P, "Portfolio must have at least one asset")
    ELSE IF m # "" THEN Revert(P, m)
    ELSE Return([P EXCEPT !.portfolios[user] =
                    [assets |-> assets, totalValue |-> 0,
                     lastRebalance |-> 0, isActive |-> TRUE]])

updatePortfolio(P, sender, user, assets) ==
    LET m == checkAssets(assets, 1, 0) IN
    IF ~onlyPortfolioOwner(sender, user) THEN Revert(P, "Not portfolio owner")
    ELSE IF ~P.portfolios[user].isActive THEN Revert(P, "Portfolio does not exist")
    ELSE IF ~(Len(assets) > 0)
         THEN Revert(P, "Portfolio must have at least one asset")
    ELSE IF m # "" THEN Revert(P, m)
    ELSE Return([P EXCEPT !.portfolios[user].assets = assets])

addAsset(P, sender, user, tokenAddress, chainId, targetPercentage) ==
    LET as == P.portfolios[user].assets IN
    IF ~onlyPortfolioOwner(sender, user) THEN Revert(P, "Not portfolio owner")
    ELSE IF ~P.portfolios[user].isActive THEN Revert(P, "Portfolio does not exist")
    ELSE IF ~(targetPercentage <= 10000) THEN Revert(P, "Invalid percentage")
    ELSE IF \E i \in 1..Len(as) :
                as[i].tokenAddress = tokenAddress /\ as[i].chainId = chainId
         THEN Revert(P, "Asset already exists")
    ELSE Return([P EXCEPT !.portfolios[user].assets =
                    Append(@, Asset(tokenAddress, chainId, targetPercentage))])

removeAsset(P, sender, user, tokenAddress, chainId) ==
    LET as    == P.portfolios[user].assets
        found == {i \in 1..Len(as) :
                    as[i].tokenAddress = tokenAddress /\ as[i].chainId = chainId}
        first == CHOOSE i \in found : \A j \in found : i <= j
    IN
    IF ~onlyPortfolioOwner(sender, user) THEN Revert(P, "Not portfolio owner")
    ELSE IF ~P.portfolios[user].isActive THEN Revert(P, "Portfolio does not exist")
    ELSE IF found = {} THEN Revert(P, "Asset not found")
    ELSE Return([P EXCEPT !.portfolios[user].assets =
                    SubSeq([as EXCEPT ![first] = as[Len(as)]], 1, Len(as) - 1)])

\* setDelegationPolicy without the require on the cooldown period
setDelegationPolicy_AnyCooldown(P, sender, user, delegate, maxSlippage, maxRebalanceAmount, rebalanceThreshold, cooldownPeriod) ==
    IF ~onlyPortfolioOwner(sender, user) THEN Revert(P, "Not portfolio owner")
    ELSE IF ~P.portfolios[user].isActive THEN Revert(P, "Portfolio does not exist")
    ELSE IF delegate = Null THEN Revert(P, "Invalid delegate address")
    ELSE IF ~(maxSlippage <= 1000) THEN Revert(P, "Max slippage too high")
    ELSE IF ~(rebalanceThreshold <= 1000)
         THEN Revert(P, "Rebalance threshold too high")
    ELSE Return([P EXCEPT !.delegationPolicies[user] =
                    [delegate |-> delegate, maxSlippage |-> maxSlippage,
                     maxRebalanceAmount |-> maxRebalanceAmount,
                     rebalanceThreshold |-> rebalanceThreshold,
                     cooldownPeriod |-> cooldownPeriod, isActive |-> TRUE]])

setDelegationPolicy(P, sender, user, delegate, maxSlippage, maxRebalanceAmount, rebalanceThreshold, cooldownPeriod) ==
    IF ~onlyPortfolioOwner(sender, user) THEN Revert(P, "Not portfolio owner")
    ELSE IF ~P.portfolios[user].isActive THEN Revert(P, "Portfolio does not exist")
    ELSE IF delegate = Null THEN Revert(P, "Invalid delegate address")
    ELSE IF ~(maxSlippage <= 1000) THEN Revert(P, "Max slippage too high")
    ELSE IF ~(rebalanceThreshold <= 1000)
         THEN Revert(P, "Rebalance threshold too high")
    ELSE IF ~(cooldownPeriod >= 3600) THEN Revert(P, "Cooldown period too short")
    ELSE Return([P EXCEPT !.delegationPolicies[user] =
                    [delegate |-> delegate, maxSlippage |-> maxSlippage,
                     maxRebalanceAmount |-> maxRebalanceAmount,
                     rebalanceThreshold |-> rebalanceThreshold,
                     cooldownPeriod |-> cooldownPeriod, isActive |-> TRUE]])

revokeDelegation(P, sender, user) ==
    IF ~onlyPortfolioOwner(sender, user) THEN Revert(P, "Not portfolio owner")
    ELSE Return([P EXCEPT !.delegationPolicies[user].isActive = FALSE])

\* updateBalance without the require on the policy's isActive
updateBalance_NoActiveCheck(P, sender, user, tokenAddress, newBalance) ==
    IF sender # P.delegationPolicies[user].delegate
    THEN Revert(P, "Not authorized delegate")
    ELSE Return([P EXCEPT !.userBalances[user][tokenAddress] = newBalance])

updateBalance(P, sender, user, tokenAddress, newBalance) ==
    IF ~P.delegationPolicies[user].isActive THEN Revert(P, "Delegation not active")
    ELSE IF sender # P.delegationPolicies[user].delegate
         THEN Revert(P, "Not authorized delegate")
    ELSE Return([P EXCEPT !.userBalances[user][tokenAddress] = newBalance])

\* executeRebalance without the cooldown require
executeRebalance_NoCooldown(P, t, sender, user, totalValue) ==
    LET policy == P.delegationPolicies[user] IN
    IF ~policy.isActive THEN Revert(P, "Delegation not active")
    ELSE IF sender # policy.delegate THEN Revert(P, "Not authorized delegate")
    ELSE Return([P EXCEPT !.portfolios[user].totalValue = totalValue,
                          !.portfolios[user].lastRebalance = t,
                          !.rebalanceExecuted =
                              Append(@, <<user, sender, totalValue, t>>)])

\* executeRebalance without the require on the caller
executeRebalance_AnyCaller(P, t, sender, user, totalValue) ==
    LET policy == P.delegationPolicies[user] IN
    IF ~policy.isActive THEN Revert(P, "Delegation not active")
    ELSE IF Overflows(P.portfolios[user].lastRebalance, policy.cooldownPeriod)
         THEN Revert(P, Panic)
    ELSE IF ~(t >= P.portfolios[user].lastRebalance + policy.cooldownPeriod)
         THEN Revert(P, "Cooldown period not met")
    ELSE Return([P EXCEPT !.portfolios[user].totalValue = totalValue,
                          !.portfolios[user].lastRebalance = t,
                          !.rebalanceExecuted =
                              Append(@, <<user, sender, totalValue, t>>)])

executeRebalance(P, t, sender, user, totalValue) ==
    LET policy == P.delegationPolicies[user] IN
    IF ~policy.isActive THEN Revert(P, "Delegation not active")
    ELSE IF sender # policy.delegate THEN Revert(P, "Not authorized delegate")
    ELSE IF Overflows(P.portfolios[user].lastRebalance, policy.cooldownPeriod)
         THEN Revert(P, Panic)
    ELSE IF ~(t >= P.portfolios[user].lastRebalance + policy.cooldownPeriod)
         THEN Revert(P, "Cooldown period not met")
    ELSE Return([P EXCEPT !.portfolios[user].totalValue = totalValue,
                          !.portfolios[user].lastRebalance = t,
                          !.rebalanceExecuted =
                              Append(@, <<user, sender, totalValue, t>>)])

\* |a - b| as the uint256 code computes it
AbsDiff(a, b) == IF a > b THEN a - b ELSE b - a

\* the drift loop with a drift equal to the threshold counted as exceeding it
RECURSIVE driftLoop_AtLeast(_, _, _, _)
driftLoop_AtLeast(assets, currentAllocations, threshold, i) ==
    IF i > Len(assets) THEN FALSE
    ELSE IF AbsDiff(currentAllocations[i], assets[i].targetPercentage) >= threshold
         THEN TRUE
    ELSE driftLoop_AtLeast(assets, currentAllocations, threshold, i + 1)

\* the drift loop of needsRebalancing from index i on
RECURSIVE driftLoop(_, _, _, _)
driftLoop(assets, currentAllocations, threshold, i) ==
    IF i > Len(assets) THEN FALSE
    ELSE IF AbsDiff(currentAllocations[i], assets[i].targetPercentage) > threshold
         THEN TRUE
    ELSE driftLoop(assets, currentAllocations, threshold, i + 1)

\* view: [ok, err, val]
needsRebalancing(P, t, user, currentAllocations) ==
    LET policy    == P.delegationPolicies[user]
        portfolio == P.portfolios[user]
    IN
    IF ~policy.isActive THEN [ok |-> TRUE, err |-> "", val |-> FALSE]
    ELSE IF Overflows(portfolio.lastRebalance, policy.cooldownPeriod)
         THEN [ok |-> FALSE, err |-> Panic, val |-> FALSE]
    ELSE IF t < portfolio.lastRebalance + policy.cooldownPeriod
         THEN [ok |-> TRUE, err |-> "", val |-> FALSE]
    ELSE IF Len(currentAllocations) # Len(portfolio.assets)
         THEN [ok |-> FALSE, err |-> "Invalid allocation length", val |-> FALSE]
    ELSE [ok |-> TRUE, err |-> "",
          val |-> driftLoop(portfolio.assets, currentAllocations,
                            policy.rebalanceThreshold, 1)]

----------------------------------------------------------------------------
(* CrossChainRebalancer: storage.  Its calls into PortfolioManager are     *)
(* part of the same transaction, so its functions act on both storages.    *)

RBState ==
    [rebalanceActions |-> rebalanceActions,
     authorizedAgents |-> authorizedAgents,
     chainTokenPrices |-> chainTokenPrices,
     actionExecuted   |-> actionExecuted]

RBPM == [rb |-> RBState, pm |-> PMState]

ZeroAction ==
    [user |-> Null, swaps |-> <<>>, bridges |-> <<>>, totalValue |-> 0,
     timestamp |-> 0, executed |-> FALSE]

ActionAt(R, aid) ==
    IF aid \in DOMAIN R.rebalanceActions
    THEN R.rebalanceActions[aid] ELSE ZeroAction

\* keccak256(abi.encodePacked(user, block.timestamp, block.number,
\*                            swaps.length, bridges.length))
ActionId(user, t, bn, nSwaps, nBridges) == <<user, t, bn, nSwaps, nBridges>>

UnknownAction == ActionId(Null, 0, 0, 0, 0)

SwapParams(tokenIn, tokenOut, amountIn, minAmountOut, chainId, routeId) ==
    [tokenIn |-> tokenIn, tokenOut |-> tokenOut, amountIn |-> amountIn,
     minAmountOut |-> minAmountOut, chainId |-> chainId, routeId |-> routeId]

BridgeParams(token, amount, fromChainId, toChainId, bridgeId) ==
    [token |-> token, amount |-> amount, fromChainId |-> fromChainId,
     toChainId |-> toChainId, bridgeId |-> bridgeId]

----------------------------------------------------------------------------
(* CrossChainRebalancer: functions *)

\* modifier validAction: "" when the action passes, else the revert reason
validAction(R, aid) ==
    IF ActionAt(R, aid).user = Null THEN "Invalid action"
    ELSE IF ActionAt(R, aid).executed THEN "Action already executed"
    ELSE ""

setAuthorizedAgent(C, sender, agent, authorized) ==
    IF sender # Admin THEN Revert(C, "Ownable: caller is not the owner")
    ELSE Return([C EXCEPT !.rb.authorizedAgents =
                    IF authorized THEN @ \cup {agent} ELSE @ \ {agent}])

updateTokenPrice(C, sender, chainId, token, price) ==
    IF sender # Admin THEN Revert(C, "Ownable: caller is not the owner")
    ELSE Return([C EXCEPT !.rb.chainTokenPrices[<<chainId, token>>] = price])

\* createRebalanceAction without the modifier onlyAuthorizedAgent
createRebalanceAction_AnyCaller(C, t, bn, sender, user, swaps, bridges, totalValue) ==
    IF user = Null THEN Revert(C, "Invalid user")
    ELSE IF ~(totalValue > 0) THEN Revert(C, "Invalid total value")
    ELSE
      LET aid == ActionId(user, t, bn, Len(swaps), Len(bridges))
          a   == [user |-> user, swaps |-> swaps, bridges |-> bridges,
                  totalValue |-> totalValue, timestamp |-> t,
                  executed |-> FALSE]
      IN [ok |-> TRUE, err |-> "", actionId |-> aid,
          st |-> [C EXCEPT !.rb.rebalanceActions = (aid :> a) @@ @]]

createRebalanceAction(C, t, bn, sender, user, swaps, bridges, totalValue) ==
    IF sender \notin C.rb.authorizedAgents THEN Revert(C, "Not authorized agent")
    ELSE IF user = Null THEN Revert(C, "Invalid user")
    ELSE IF ~(totalValue > 0) THEN Revert(C, "Invalid total value")
    ELSE
      LET aid == ActionId(user, t, bn, Len(swaps), Len(bridges))
          a   == [user |-> user, swaps |-> swaps, bridges |-> bridges,
                  totalValue |-> totalValue, timestamp |-> t,
                  executed |-> FALSE]
      IN [ok |-> TRUE, err |-> "", actionId |-> aid,
          st |-> [C EXCEPT !.rb.rebalanceActions = (aid :> a) @@ @]]

\* executeSwap without the slippage require
executeSwap_NoSlippageCheck(C, sender, aid, swapIndex, actualAmountOut) ==
    LET action == ActionAt(C.rb, aid)
        swap   == action.swaps[swapIndex + 1]
        b1     == updateBalance(C.pm, Rebalancer, action.user, swap.tokenIn, 0)
        b2     == updateBalance(b1.st, Rebalancer, action.user, swap.tokenOut,
                                actualAmountOut)
    IN
    IF sender \notin C.rb.authorizedAgents THEN Revert(C, "Not authorized agent")
    ELSE IF validAction(C.rb, aid) # "" THEN Revert(C, validAction(C.rb, aid))
    ELSE IF ~(swapIndex < Len(action.swaps)) THEN Revert(C, "Invalid swap index")
    ELSE IF ~b1.ok THEN Revert(C, b1.err)
    ELSE IF ~b2.ok THEN Revert(C, b2.err)
    ELSE Return([C EXCEPT !.pm = b2.st])

\* executeSwap crediting the output on top of the balance held
executeSwap_Adds(C, sender, aid, swapIndex, actualAmountOut) ==
    LET action == ActionAt(C.rb, aid)
        swap   == action.swaps[swapIndex + 1]
        b1     == updateBalance(C.pm, Rebalancer, action.user, swap.tokenIn, 0)
        b2     == updateBalance(b1.st, Rebalancer, action.user, swap.tokenOut,
                                C.pm.userBalances[action.user][swap.tokenOut]
                                    + actualAmountOut)
    IN
    IF sender \notin C.rb.authorizedAgents THEN Revert(C, "Not authorized agent")
    ELSE IF validAction(C.rb, aid) # "" THEN Revert(C, validAction(C.rb, aid))
    ELSE IF ~(swapIndex < Len(action.swaps)) THEN Revert(C, "Invalid swap index")
    ELSE IF ~(actualAmountOut >= swap.minAmountOut)
         THEN Revert(C, "Slippage too high")
    ELSE IF ~b1.ok THEN Revert(C, b1.err)
    ELSE IF ~b2.ok THEN Revert(C, b2.err)
    ELSE Return([C EXCEPT !.pm = b2.st])

\* swapIndex counts from 0 as in the contract
executeSwap(C, sender, aid, swapIndex, actualAmountOut) ==
    LET action == ActionAt(C.rb, aid)
        swap   == action.swaps[swapIndex + 1]
        b1     == updateBalance(C.pm, Rebalancer, action.user, swap.tokenIn, 0)
        b2     == updateBalance(b1.st, Rebalancer, action.user, swap.tokenOut,
                                actualAmountOut)
    IN
    IF sender \notin C.rb.authorizedAgents THEN Revert(C, "Not authorized agent")
    ELSE IF validAction(C.rb, aid) # "" THEN Revert(C, validAction(C.rb, aid))
    ELSE IF ~(swapIndex < Len(action.swaps)) THEN Revert(C, "Invalid swap index")
    ELSE IF ~(actualAmountOut >= swap.minAmountOut)
         THEN Revert(C, "Slippage too high")
    ELSE IF ~b1.ok THEN Revert(C, b1.err)
    ELSE IF ~b2.ok THEN Revert(C, b2.err)
    ELSE Return([C EXCEPT !.pm = b2.st])

\* executeBridge that takes the bridged leg off the action
executeBridge_ConsumesLeg(C, sender, aid, bridgeIndex, actualAmount) ==
    LET action == ActionAt(C.rb, aid)
        bridge == action.bridges[bridgeIndex + 1]
        b      == updateBalance(C.pm, Rebalancer, action.user, bridge.token,
                                actualAmount)
        rest   == [j \in 1..(Len(action.bridges) - 1) |->
                      IF j <= bridgeIndex THEN action.bridges[j]
                      ELSE action.bridges[j + 1]]
    IN
    IF sender \notin C.rb.authorizedAgents THEN Revert(C, "Not authorized agent")
    ELSE IF validAction(C.rb, aid) # "" THEN Revert(C, validAction(C.rb, aid))
    ELSE IF ~(bridgeIndex < Len(action.bridges))
         THEN Revert(C, "Invalid bridge index")
    ELSE IF ~(actualAmount > 0) THEN Revert(C, "Invalid bridge amount")
    ELSE IF ~b.ok THEN Revert(C, b.err)
    ELSE Return([C EXCEPT !.pm = b.st,
                          !.rb.rebalanceActions[aid].bridges = rest])

executeBridge(C, sender, aid, bridgeIndex, actualAmount) ==
    LET action == ActionAt(C.rb, aid)
        bridge == action.bridges[bridgeIndex + 1]
        b      == updateBalance(C.pm, Rebalancer, action.user, bridge.token,
                                actualAmount)
    IN
    IF sender \notin C.rb.authorizedAgents THEN Revert(C, "Not authorized agent")
    ELSE IF validAction(C.rb, aid) # "" THEN Revert(C, validAction(C.rb, aid))
    ELSE IF ~(bridgeIndex < Len(action.bridges))
         THEN Revert(C, "Invalid bridge index")
    ELSE IF ~(actualAmount > 0) THEN Revert(C, "Invalid bridge amount")
    ELSE IF ~b.ok THEN Revert(C, b.err)
    ELSE Return([C EXCEPT !.pm = b.st])

completeRebalanceAction(C, t, sender, aid) ==
    LET action == ActionAt(C.rb, aid)
        e      == executeRebalance(C.pm, t, Rebalancer, action.user,
                                   action.totalValue)
    IN
    IF sender \notin C.rb.authorizedAgents THEN Revert(C, "Not authorized agent")
    ELSE IF validAction(C.rb, aid) # "" THEN Revert(C, validAction(C.rb, aid))
    ELSE IF ~e.ok THEN Revert(C, e.err)
    ELSE Return([C EXCEPT !.rb.rebalanceActions[aid].executed = TRUE,
                          !.rb.actionExecuted = Append(@, <<aid, action.user>>),
                          !.pm = e.st])

\* emergencyPause without onlyOwner
emergencyPause_AnyCaller(C, sender, aid) ==
    IF ActionAt(C.rb, aid).user = Null THEN Revert(C, "Invalid action")
    ELSE Return([C EXCEPT !.rb.rebalanceActions[aid].executed = TRUE])

emergencyPause(C, sender, aid) ==
    IF sender # Admin THEN Revert(C, "Ownable: caller is not the owner")
    ELSE IF ActionAt(C.rb, aid).user = Null THEN Revert(C, "Invalid action")
    ELSE Return([C EXCEPT !.rb.rebalanceActions[aid].executed = TRUE])

\* 1e18, the fixed-point unit of prices, brought down like MaxUint256
Wad == 100

\* a * b on uint256 is checked as well
MulOverflows(a, b) == b # 0 /\ a > MaxUint256 \div b

\* (currentBalances[i] * price) / 1e18 with the price of tokens[i] on the
\* chain of the portfolio's i-th asset
currentValue(C, assets, tokens, currentBalances, i) ==
    (currentBalances[i] * C.rb.chainTokenPrices[<<assets[i].chainId, tokens[i]>>])
        \div Wad

\* the first loop of calculateDrift from index i on
RECURSIVE totalLoop(_, _, _, _, _)
totalLoop(C, assets, tokens, currentBalances, i) ==
    IF i > Len(tokens) THEN 0
    ELSE currentValue(C, assets, tokens, currentBalances, i)
            + totalLoop(C, assets, tokens, currentBalances, i + 1)

\* view: [ok, err, val]
calculateDrift(C, user, tokens, currentBalances) ==
    LET assets     == C.pm.portfolios[user].assets
        totalValue == totalLoop(C, assets, tokens, currentBalances, 1)
        price(i)   == C.rb.chainTokenPrices[<<assets[i].chainId, tokens[i]>>]
        current(i) ==
            IF totalValue > 0
            THEN (currentValue(C, assets, tokens, currentBalances, i) * 10000)
                     \div totalValue
            ELSE 0
    IN
    IF Len(tokens) # Len(currentBalances)
    THEN [ok |-> FALSE, err |-> "Invalid input length", val |-> <<>>]
    ELSE IF Len(tokens) # Len(assets)
    THEN [ok |-> FALSE, err |-> "Invalid portfolio length", val |-> <<>>]
    ELSE IF \E i \in 1..Len(tokens) :
                \/ MulOverflows(currentBalances[i], price(i))
                \/ MulOverflows(currentValue(C, assets, tokens, currentBalances, i),
                                10000)
    THEN [ok |-> FALSE, err |-> Panic, val |-> <<>>]
    ELSE [ok |-> TRUE, err |-> "",
          val |-> [i \in 1..Len(tokens) |->
                      AbsDiff(current(i), assets[i].targetPercentage)]]

----------------------------------------------------------------------------
(* IgnisX, the facade.  Its constructor deploys the three contracts and     *)
(* makes itself their owner, so in this deployment owner() of each of them *)
(* is the facade's own address; the facade's owner is the deployer.        *)

Facade == Admin

Deployer == "deployer"

IgnisXState == [lit |-> LitState, rb |-> RBState, pm |-> PMState]

\* keccak256(abi.encodePacked(maxSlippage, maxRebalanceAmount,
\*                            rebalanceThreshold, cooldownPeriod))
createPolicyHash(maxSlippage, maxRebalanceAmount, rebalanceThreshold, cooldownPeriod) ==
    <<maxSlippage, maxRebalanceAmount, rebalanceThreshold, cooldownPeriod>>

\* enableAutopilot that keeps the session when the policy step fails
enableAutopilot_KeepsSession(F, t, sender, user, maxSlippage, maxRebalanceAmount, rebalanceThreshold, cooldownPeriod, sessionExpiry, maxOperations) ==
    LET policyHash == createPolicyHash(maxSlippage, maxRebalanceAmount,
                                       rebalanceThreshold, cooldownPeriod)
        c == createDelegationSession(F.lit, t, user, Rebalancer, sessionExpiry,
                                     policyHash, maxOperations)
        p == setDelegationPolicy(F.pm, Facade, user, Rebalancer, maxSlippage,
                                 maxRebalanceAmount, rebalanceThreshold,
                                 cooldownPeriod)
    IN
    IF ~(sender = user \/ sender = Deployer) THEN Revert(F, "Not authorized")
    ELSE IF ~c.ok THEN Revert(F, c.err)
    ELSE IF ~p.ok THEN Revert([F EXCEPT !.lit = c.st], p.err)
    ELSE [ok |-> TRUE, err |-> "", sessionId |-> c.sessionId,
          st |-> [F EXCEPT !.lit = c.st, !.pm = p.st]]

enableAutopilot(F, t, sender, user, maxSlippage, maxRebalanceAmount, rebalanceThreshold, cooldownPeriod, sessionExpiry, maxOperations) ==
    LET policyHash == createPolicyHash(maxSlippage, maxRebalanceAmount,
                                       rebalanceThreshold, cooldownPeriod)
        c == createDelegationSession(F.lit, t, user, Rebalancer, sessionExpiry,
                                     policyHash, maxOperations)
        p == setDelegationPolicy(F.pm, Facade, user, Rebalancer, maxSlippage,
                                 maxRebalanceAmount, rebalanceThreshold,
                                 cooldownPeriod)
    IN
    IF ~(sender = user \/ sender = Deployer) THEN Revert(F, "Not authorized")
    ELSE IF ~c.ok THEN Revert(F, c.err)
    ELSE IF ~p.ok THEN Revert(F, p.err)
    ELSE [ok |-> TRUE, err |-> "", sessionId |-> c.sessionId,
          st |-> [F EXCEPT !.lit = c.st, !.pm = p.st]]

\* disableAutopilot that also ends the user's sessions
disableAutopilot_EndsSessions(F, sender, user) ==
    LET p == revokeDelegation(F.pm, Facade, user) IN
    IF ~(sender = user \/ sender = Deployer) THEN Revert(F, "Not authorized")
    ELSE IF ~p.ok THEN Revert(F, p.err)
    ELSE Return([F EXCEPT !.pm = p.st,
                          !.lit.delegationSessions =
                              [sid \in DOMAIN @ |->
                                  IF @[sid].user = user
                                  THEN [@[sid] EXCEPT !.isActive = FALSE]
                                  ELSE @[sid]]])

disableAutopilot(F, sender, user) ==
    LET p == revokeDelegation(F.pm, Facade, user) IN
    IF ~(sender = user \/ sender = Deployer) THEN Revert(F, "Not authorized")
    ELSE IF ~p.ok THEN Revert(F, p.err)
    ELSE Return([F EXCEPT !.pm = p.st])

\* the session check and the executeOperation every agent entry point of the
\* facade starts with; the facade is the caller of executeOperation
acceptOperation(F, t, sid, op) ==
    LET e == executeOperation(F.lit, t, Facade, sid, op) IN
    IF ~isSessionValid(F.lit, t, sid) THEN Revert(F, "Invalid session")
    ELSE IF ~e.ok THEN Revert(F, e.err)
    ELSE Return([F EXCEPT !.lit = e.st])

triggerRebalancing(F, t, bn, sender, user, swaps, bridges, totalValue, sid, op) ==
    LET a == acceptOperation(F, t, sid, op)
        c == createRebalanceAction(a.st, t, bn, Facade, user, swaps, bridges,
                                   totalValue)
    IN
    IF ~a.ok THEN Revert(F, a.err)
    ELSE IF ~c.ok THEN Revert(F, c.err)
    ELSE c

\* the facade's executeSwap that keeps the accepted operation when the leg fails
IgnisX_executeSwap_KeepsOperation(F, t, sender, aid, swapIndex, actualAmountOut, sid, op) ==
    LET a == acceptOperation(F, t, sid, op)
        x == executeSwap(a.st, Facade, aid, swapIndex, actualAmountOut)
    IN
    IF ~a.ok THEN Revert(F, a.err)
    ELSE IF ~x.ok THEN Revert(a.st, x.err)
    ELSE x

IgnisX_executeSwap(F, t, sender, aid, swapIndex, actualAmountOut, sid, op) ==
    LET a == acceptOperation(F, t, sid, op)
        x == executeSwap(a.st, Facade, aid, swapIndex, actualAmountOut)
    IN
    IF ~a.ok THEN Revert(F, a.err)
    ELSE IF ~x.ok THEN Revert(F, x.err)
    ELSE x

IgnisX_executeBridge(F, t, sender, aid, bridgeIndex, actualAmount, sid, op) ==
    LET a == acceptOperation(F, t, sid, op)
        x == executeBridge(a.st, Facade, aid, bridgeIndex, actualAmount)
    IN
    IF ~a.ok THEN Revert(F, a.err)
    ELSE IF ~x.ok THEN Revert(F, x.err)
    ELSE x

completeRebalancing(F, t, sender, aid, sid, op) ==
    LET a == acceptOperation(F, t, sid, op)
        x == completeRebalanceAction(a.st, t, Facade, aid)
    IN
    IF ~a.ok THEN Revert(F, a.err)
    ELSE IF ~x.ok THEN Revert(F, x.err)
    ELSE x

IgnisX_setAuthorizedAgent(F, sender, agent, authorized) ==
    IF sender # Deployer THEN Revert(F, "Ownable: caller is not the owner")
    ELSE setAuthorizedAgent(F, Facade, agent, authorized)

IgnisX_emergencyPause(F, sender, aid) ==
    IF sender # Deployer THEN Revert(F, "Ownable: caller is not the owner")
    ELSE emergencyPause(F, Facade, aid)

----------------------------------------------------------------------------
(* LitProtocolService, the signer outside the chain.  A call is a routine  *)
(* that runs to its next await without interruption; while it waits, the   *)
(* calls of other callers run.                                             *)

\* the callers that hold the session object
Signers == {"c1", "c2"}

\* no session object made yet
NoSession ==
    [sessionId |-> <<>>, user |-> Null, delegate |-> Null, nonce |-> 0,
     expiry |-> 0, policyHash |-> <<>>, isActive |-> FALSE,
     maxOperations |-> 0, operationsUsed |-> 0]

\* Date.now(), in milliseconds
DateNow(t) == t * 1000

\* generateSessionId joins the two addresses, the policy hash and the time;
\* its random suffix is left out, one session object being made
generateSessionId(t, userAddress, delegateAddress, policyHash) ==
    <<"session", userAddress, delegateAddress, policyHash, DateNow(t)>>

\* the object createDelegationSession of the service returns
Service_createDelegationSession(t, userAddress, delegateAddress, policyHash, sessionExpiry, maxOperations) ==
    [sessionId |-> generateSessionId(t, userAddress, delegateAddress,
                                     policyHash),
     user |-> userAddress, delegate |-> delegateAddress, nonce |-> 0,
     expiry |-> (DateNow(t) \div 1000) + sessionExpiry,
     policyHash |-> policyHash, isActive |-> TRUE,
     maxOperations |-> maxOperations, operationsUsed |-> 0]

NoOperation ==
    [user |-> Null, delegate |-> Null, nonce |-> 0, operationType |-> 0,
     data |-> "", timestamp |-> 0, signature |-> ""]

\* a caller with no call in flight
Idle == [pc |-> "idle", todo |-> <<>>, operation |-> NoOperation]

\* signOperation up to its first await: the three throws, then the operation
\* stamped with the session's nonce; [ok, err, operation]
signOperation_enter(s, t, operationType, operationData) ==
    IF ~s.isActive
    THEN [ok |-> FALSE, err |-> "Session is not active",
          operation |-> NoOperation]
    ELSE IF s.operationsUsed >= s.maxOperations
    THEN [ok |-> FALSE, err |-> "Maximum operations exceeded",
          operation |-> NoOperation]
    ELSE IF DateNow(t) > s.expiry * 1000
    THEN [ok |-> FALSE, err |-> "Session expired", operation |-> NoOperation]
    ELSE [ok |-> TRUE, err |-> "",
          operation |-> [user |-> s.user, delegate |-> s.delegate,
                         nonce |-> s.nonce, operationType |-> operationType,
                         data |-> operationData,
                         timestamp |-> DateNow(t) \div 1000,
                         signature |-> ""]]

\* signOperation after its awaits: the signature filled in
signOperation_sign(operation, policyHash) ==
    [operation EXCEPT !.signature =
        <<"lit", operation.user, operation.delegate, operation.nonce,
          operation.operationType, operation.data, operation.timestamp,
          policyHash>>]

\* session.nonce++; session.operationsUsed++
signOperation_count(s) ==
    [s EXCEPT !.nonce = @ + 1, !.operationsUsed = @ + 1]

\* one turn of the loop of batchSignOperations up to the await inside
\* signOperation: the loop's own check, then signOperation
batchSignOperations_turn(s, t, op) ==
    IF s.operationsUsed >= s.maxOperations
    THEN [ok |-> FALSE, err |-> "Maximum operations exceeded",
          operation |-> NoOperation]
    ELSE signOperation_enter(s, t, op.type, op.data)

----------------------------------------------------------------------------
(* Initial state: the three contracts freshly deployed, every mapping zero *)

Tokens == {"tA", "tB"}
Chains == {1}

\* ret: the call, its arguments and its return value
Call(name, args, val) == [op |-> name, args |-> args, val |-> val]

NoRet == Call("none", <<>>, <<>>)

Init ==
    /\ delegationSessions = <<>>
    /\ userNonces = [u \in Users |-> 0]
    /\ usedSignatures = {}
    /\ portfolios = [u \in Users |-> ZeroPortfolio]
    /\ delegationPolicies = [u \in Users |-> ZeroPolicy]
    /\ userBalances = [u \in Users |-> [k \in Tokens |-> 0]]
    /\ rebalanceExecuted = <<>>
    /\ rebalanceActions = <<>>
    /\ authorizedAgents = {}
    /\ chainTokenPrices = [k \in Chains \X Tokens |-> 0]
    /\ actionExecuted = <<>>
    /\ now = StartTime
    /\ blockNumber = 1
    /\ ret = NoRet
    /\ session = NoSession
    /\ signing = [c \in Signers |-> Idle]
    /\ signedOperations = <<>>

SetLit(L) ==
    /\ delegationSessions' = L.delegationSessions
    /\ userNonces' = L.userNonces
    /\ usedSignatures' = L.usedSignatures

SetPM(P) ==
    /\ portfolios' = P.portfolios
    /\ delegationPolicies' = P.delegationPolicies
    /\ userBalances' = P.userBalances
    /\ rebalanceExecuted' = P.rebalanceExecuted

SetRB(R) ==
    /\ rebalanceActions' = R.rebalanceActions
    /\ authorizedAgents' = R.authorizedAgents
    /\ chainTokenPrices' = R.chainTokenPrices
    /\ actionExecuted' = R.actionExecuted

\* a reverted transaction is not recorded
Record(r, name, args, val) == ret' = IF r.ok THEN Call(name, args, val) ELSE ret

\* the next block is mined: later transactions see a later timestamp
NewBlock ==
    /\ blockNumber <= MaxBlocks
    /\ now' = now + BlockInterval
    /\ blockNumber' = blockNumber + 1
    /\ ret' = Call("newBlock", <<>>, <<>>)
    /\ UNCHANGED <<litVars, pmVars, rbVars, svcVars>>

----------------------------------------------------------------------------
(* Transactions on LitProtocolDelegate *)

SessionIds == DOMAIN delegationSessions \cup {UnknownSession}

CreateDelegationSession(user, delegate, expiry, policyHash, maxOperations) ==
    LET r == createDelegationSession(LitState, now, user, delegate, expiry,
                                     policyHash, maxOperations)
    IN /\ Cardinality(DOMAIN r.st.delegationSessions) <= MaxSessions
       /\ SetLit(r.st)
       /\ Record(r, "createDelegationSession",
                 <<user, delegate, expiry, policyHash, maxOperations>>,
                 IF r.ok THEN <<r.sessionId>> ELSE <<>>)
       /\ UNCHANGED <<pmVars, rbVars, now, blockNumber, svcVars>>

RevokeDelegationSession(sender, sid) ==
    LET r == revokeDelegationSession(LitState, sender, sid)
    IN /\ SetLit(r.st)
       /\ Record(r, "revokeDelegationSession", <<sender, sid>>, <<>>)
       /\ UNCHANGED <<pmVars, rbVars, now, blockNumber, svcVars>>

VerifySignedOperation(sid, op) ==
    LET r == verifySignedOperation(LitState, now, sid, op)
    IN /\ Cardinality(r.st.usedSignatures) <= MaxUsed
       /\ SetLit(r.st)
       /\ Record(r, "verifySignedOperation", <<sid, op>>,
                 IF r.ok THEN <<r.valid>> ELSE <<>>)
       /\ UNCHANGED <<pmVars, rbVars, now, blockNumber, svcVars>>

ExecuteOperation(sender, sid, op) ==
    LET r == executeOperation(LitState, now, sender, sid, op)
    IN /\ Cardinality(r.st.usedSignatures) <= MaxUsed
       /\ SetLit(r.st)
       /\ Record(r, "executeOperation", <<sender, sid, op>>, <<>>)
       /\ UNCHANGED <<pmVars, rbVars, now, blockNumber, svcVars>>

BatchExecuteOperations(sender, sid, operations, nHashes) ==
    LET r == batchExecuteOperations(LitState, now, sender, sid, operations,
                                    nHashes)
    IN /\ Cardinality(r.st.usedSignatures) <= MaxUsed
       /\ SetLit(r.st)
       /\ Record(r, "batchExecuteOperations",
                 <<sender, sid, operations, nHashes>>, <<>>)
       /\ UNCHANGED <<pmVars, rbVars, now, blockNumber, svcVars>>

----------------------------------------------------------------------------
(* Inputs of the session specification *)

Nonces == {0, 1}
Data   == {"d1", "d2"}

\* every session of the exploration is granted until this time
SessionDeadline == StartTime + BlockInterval

Body(user, delegate, nonce, data) ==
    [user |-> user, delegate |-> delegate, nonce |-> nonce,
     operationType |-> 1, data |-> data, timestamp |-> StartTime]

WithSig(b, sig) ==
    [user |-> b.user, delegate |-> b.delegate, nonce |-> b.nonce,
     operationType |-> b.operationType, data |-> b.data,
     timestamp |-> b.timestamp, signature |-> sig]

\* the operation b signed by signer for a session with policy hash ph
SignedOp(signer, b, ph) ==
    WithSig(b, Sign(signer, toEthSignedMessageHash(MessageHash(b, ph))))

\* operations of u1 for the agent, signed by u1
Honest == {SignedOp("u1", Body("u1", Agent, n, d), "ph1") : n \in Nonces, d \in Data}

Op0 == SignedOp("u1", Body("u1", Agent, 0, "d1"), "ph1")

\* the signature of Op0 on the operation with the next nonce
Transplanted == {WithSig(Body("u1", Agent, 1, "d1"), Op0.signature)}

\* signed by a key that is not the owner's
Forged == {SignedOp(Eve, Body("u1", Agent, n, "d1"), "ph1") : n \in Nonces}

\* wrong user, wrong delegate, wrong policy hash, malformed signature
Misaddressed ==
    {SignedOp("u1", Body("u2", Agent, 0, "d1"), "ph1"),
     SignedOp("u1", Body("u1", Eve, 0, "d1"), "ph1"),
     SignedOp("u1", Body("u1", Agent, 0, "d1"), "ph2"),
     WithSig(Body("u1", Agent, 0, "d1"), Malformed)}

Ops == Honest \cup Transplanted \cup Forged \cup Misaddressed

BatchOps ==
    {Op0, SignedOp("u1", Body("u1", Agent, 0, "d2"), "ph1"),
     SignedOp(Eve, Body("u1", Agent, 0, "d1"), "ph1")}

SeqsUpTo(S, n) == UNION {[1..k -> S] : k \in 0..n}

Batches == SeqsUpTo(BatchOps, MaxBatch)

Callers == {"u1", Agent, Admin, Eve}

\* the calls explored: every operation on every session by the delegate,
\* and one operation by the other callers and on the unknown session
NextSession ==
    \/ NewBlock
    \/ \E user \in {"u1", Null}, delegate \in {Agent, Null},
          expiry \in {now, SessionDeadline}, maxOperations \in 0..MaxOps :
          /\ (user = Null \/ delegate = Null \/ expiry = now)
                => maxOperations = MaxOps
          /\ CreateDelegationSession(user, delegate, expiry, "ph1", maxOperations)
    \/ \E sender \in Callers, sid \in SessionIds :
          /\ sid = UnknownSession => sender = Admin
          /\ RevokeDelegationSession(sender, sid)
    \/ \E sid \in SessionIds, op \in Ops :
          /\ sid = UnknownSession => op = Op0
          /\ VerifySignedOperation(sid, op)
    \/ \E sender \in Callers, sid \in SessionIds, op \in Ops :
          /\ (sid = UnknownSession \/ sender # Agent) => op = Op0
          /\ ExecuteOperation(sender, sid, op)
    \/ \E sender \in Callers, sid \in SessionIds, operations \in Batches,
          extra \in {0, 1} :
          /\ (sid = UnknownSession \/ sender # Agent \/ extra = 1)
                => operations = <<Op0>>
          /\ BatchExecuteOperations(sender, sid, operations,
                                    Len(operations) + extra)

SpecSession == Init /\ [][NextSession]_vars

----------------------------------------------------------------------------
(* Transactions on PortfolioManager *)

CreatePortfolio(sender, user, assets) ==
    LET r == createPortfolio(PMState, sender, user, assets)
    IN /\ SetPM(r.st)
       /\ Record(r, "createPortfolio", <<sender, user, assets>>, <<>>)
       /\ UNCHANGED <<litVars, rbVars, now, blockNumber, svcVars>>

UpdatePortfolio(sender, user, assets) ==
    LET r == updatePortfolio(PMState, sender, user, assets)
    IN /\ SetPM(r.st)
       /\ Record(r, "updatePortfolio", <<sender, user, assets>>, <<>>)
       /\ UNCHANGED <<litVars, rbVars, now, blockNumber, svcVars>>

AddAsset(sender, user, tokenAddress, chainId, targetPercentage) ==
    LET r == addAsset(PMState, sender, user, tokenAddress, chainId,
                      targetPercentage)
    IN /\ SetPM(r.st)
       /\ Record(r, "addAsset",
                 <<sender, user, tokenAddress, chainId, targetPercentage>>, <<>>)
       /\ UNCHANGED <<litVars, rbVars, now, blockNumber, svcVars>>

RemoveAsset(sender, user, tokenAddress, chainId) ==
    LET r == removeAsset(PMState, sender, user, tokenAddress, chainId)
    IN /\ SetPM(r.st)
       /\ Record(r, "removeAsset", <<sender, user, tokenAddress, chainId>>, <<>>)
       /\ UNCHANGED <<litVars, rbVars, now, blockNumber, svcVars>>

SetDelegationPolicy(sender, user, delegate, maxSlippage, maxRebalanceAmount, rebalanceThreshold, cooldownPeriod) ==
    LET r == setDelegationPolicy(PMState, sender, user, delegate, maxSlippage,
                                 maxRebalanceAmount, rebalanceThreshold,
                                 cooldownPeriod)
    IN /\ SetPM(r.st)
       /\ Record(r, "setDelegationPolicy",
                 <<sender, user, delegate, maxSlippage, maxRebalanceAmount,
                   rebalanceThreshold, cooldownPeriod>>, <<>>)
       /\ UNCHANGED <<litVars, rbVars, now, blockNumber, svcVars>>

RevokeDelegation(sender, user) ==
    LET r == revokeDelegation(PMState, sender, user)
    IN /\ SetPM(r.st)
       /\ Record(r, "revokeDelegation", <<sender, user>>, <<>>)
       /\ UNCHANGED <<litVars, rbVars, now, blockNumber, svcVars>>

UpdateBalance(sender, user, tokenAddress, newBalance) ==
    LET r == updateBalance(PMState, sender, user, tokenAddress, newBalance)
    IN /\ SetPM(r.st)
       /\ Record(r, "updateBalance",
                 <<sender, user, tokenAddress, newBalance>>, <<>>)
       /\ UNCHANGED <<litVars, rbVars, now, blockNumber, svcVars>>

ExecuteRebalance(sender, user, totalValue) ==
    LET r == executeRebalance(PMState, now, sender, user, totalValue)
    IN /\ SetPM(r.st)
       /\ Record(r, "executeRebalance", <<sender, user, totalValue>>, <<>>)
       /\ UNCHANGED <<litVars, rbVars, now, blockNumber, svcVars>>

\* a view: the storage stays, the answer is recorded
NeedsRebalancing(user, currentAllocations) ==
    LET r == needsRebalancing(PMState, now, user, currentAllocations)
    IN /\ Record(r, "needsRebalancing", <<user, currentAllocations>>, <<r.val>>)
       /\ UNCHANGED <<litVars, pmVars, rbVars, now, blockNumber, svcVars>>

----------------------------------------------------------------------------
(* Inputs of the portfolio specification: asset lists around the 100% sum *)

MaxAssets == 2             \* longest asset list passed to create / update

Percentages == {0, 4999, 5000, 5001, 10000}

AssetInputs ==
    {Asset(k, 1, pct) : k \in Tokens, pct \in Percentages}
        \cup {Asset(Null, 1, 5000)}

AssetLists == SeqsUpTo(AssetInputs, MaxAssets)

Half == <<Asset("tA", 1, 5000), Asset("tB", 1, 5000)>>

NextPortfolio ==
    \/ \E sender \in {"u1", Admin, Eve}, assets \in AssetLists :
          /\ sender # "u1" => assets = Half
          /\ CreatePortfolio(sender, "u1", assets)
    \/ \E sender \in {"u1", Admin, Eve}, assets \in AssetLists :
          /\ sender # "u1" => assets = Half
          /\ UpdatePortfolio(sender, "u1", assets)
    \/ \E sender \in {"u1", Eve}, k \in Tokens,
          pct \in {0, 5000, 10000, 10001} :
          AddAsset(sender, "u1", k, 1, pct)
    \/ \E sender \in {"u1", Eve}, k \in Tokens : RemoveAsset(sender, "u1", k, 1)
    \/ \E sender \in {"u1", Eve} :
          SetDelegationPolicy(sender, "u1", Agent, 50, 1000, 100, 3600)
    \/ \E sender \in {"u1", Eve} : RevokeDelegation(sender, "u1")
    \/ \E sender \in {Agent, "u1"} : ExecuteRebalance(sender, "u1", 1000)

SpecPortfolio == Init /\ [][NextPortfolio]_vars

----------------------------------------------------------------------------
(* Inputs of the policy specification: policies around their limits, time  *)
(* around the cooldown, allocations around the threshold                   *)

Whole == <<Asset("tA", 1, 10000)>>

AllocLists ==
    {<<6000, 4000>>, <<5100, 4900>>, <<5050, 4950>>, <<5101, 4900>>,
     <<5000, 4899>>, <<5000, 5000>>,
     <<10000>>, <<9900>>, <<9899>>, <<>>}

NextPolicy ==
    \/ NewBlock
    \/ \E assets \in {Half, Whole} : CreatePortfolio("u1", "u1", assets)
    \/ \E assets \in {Half, Whole} : UpdatePortfolio("u1", "u1", assets)
    \/ \E threshold \in {0, 100}, cooldown \in {3600, 5400, MaxUint256} :
          /\ cooldown = MaxUint256 => threshold = 100
          /\ SetDelegationPolicy("u1", "u1", Agent, 50, 1000, threshold, cooldown)
    \/ \E sender \in {"u1", Eve}, delegate \in {Agent, Rebalancer, Null},
          slippage \in {50, 1001}, threshold \in {100, 1001},
          cooldown \in {3599, 3600} :
          /\ delegate = Rebalancer
                => (sender = "u1" /\ slippage = 50 /\ threshold = 100
                                  /\ cooldown = 3600)
          /\ SetDelegationPolicy(sender, "u1", delegate, slippage, 1000,
                                 threshold, cooldown)
    \/ \E sender \in {"u1", Eve} : RevokeDelegation(sender, "u1")
    \/ \E sender \in {Agent, Rebalancer, Eve} :
          UpdateBalance(sender, "u1", "tA", 100)
    \/ \E sender \in {Agent, Rebalancer, "u1", Eve}, totalValue \in {1000, 2000} :
          /\ sender = Rebalancer => totalValue = 1000
          /\ ExecuteRebalance(sender, "u1", totalValue)
    \/ \E currentAllocations \in AllocLists :
          NeedsRebalancing("u1", currentAllocations)

SpecPolicy == Init /\ [][NextPolicy]_vars

----------------------------------------------------------------------------
(* Transactions on CrossChainRebalancer *)

MaxActions == 2            \* action records kept by the rebalancer

SetBoth(C) == SetRB(C.rb) /\ SetPM(C.pm)

SetAuthorizedAgent(sender, agent, authorized) ==
    LET r == setAuthorizedAgent(RBPM, sender, agent, authorized)
    IN /\ SetBoth(r.st)
       /\ Record(r, "setAuthorizedAgent", <<sender, agent, authorized>>, <<>>)
       /\ UNCHANGED <<litVars, now, blockNumber, svcVars>>

CreateRebalanceAction(sender, user, swaps, bridges, totalValue) ==
    LET r == createRebalanceAction(RBPM, now, blockNumber, sender, user,
                                   swaps, bridges, totalValue)
    IN /\ Cardinality(DOMAIN r.st.rb.rebalanceActions) <= MaxActions
       /\ SetBoth(r.st)
       /\ Record(r, "createRebalanceAction",
                 <<sender, user, swaps, bridges, totalValue>>,
                 IF r.ok THEN <<r.actionId>> ELSE <<>>)
       /\ UNCHANGED <<litVars, now, blockNumber, svcVars>>

ExecuteSwap(sender, aid, swapIndex, actualAmountOut) ==
    LET r == executeSwap(RBPM, sender, aid, swapIndex, actualAmountOut)
    IN /\ SetBoth(r.st)
       /\ Record(r, "executeSwap",
                 <<sender, aid, swapIndex, actualAmountOut>>, <<>>)
       /\ UNCHANGED <<litVars, now, blockNumber, svcVars>>

ExecuteBridge(sender, aid, bridgeIndex, actualAmount) ==
    LET r == executeBridge(RBPM, sender, aid, bridgeIndex, actualAmount)
    IN /\ SetBoth(r.st)
       /\ Record(r, "executeBridge",
                 <<sender, aid, bridgeIndex, actualAmount>>, <<>>)
       /\ UNCHANGED <<litVars, now, blockNumber, svcVars>>

CompleteRebalanceAction(sender, aid) ==
    LET r == completeRebalanceAction(RBPM, now, sender, aid)
    IN /\ SetBoth(r.st)
       /\ Record(r, "completeRebalanceAction", <<sender, aid>>, <<>>)
       /\ UNCHANGED <<litVars, now, blockNumber, svcVars>>

EmergencyPause(sender, aid) ==
    LET r == emergencyPause(RBPM, sender, aid)
    IN /\ SetBoth(r.st)
       /\ Record(r, "emergencyPause", <<sender, aid>>, <<>>)
       /\ UNCHANGED <<litVars, now, blockNumber, svcVars>>

----------------------------------------------------------------------------
(* Inputs of the rebalancer specification *)

Swap1 == SwapParams("tA", "tB", 100, 99, 1, "route1")
Bridge1 == BridgeParams("tA", 50, 1, 2, "bridge1")

\* the legs of an action: one swap and one bridge
Legs == {<<<<Swap1>>, <<Bridge1>>>>}

ActionIds == DOMAIN rebalanceActions \cup {UnknownAction}

NextRebalance ==
    \/ NewBlock
    \/ \E sender \in {Admin, Eve} : SetAuthorizedAgent(sender, Agent, TRUE)
    \/ CreatePortfolio("u1", "u1", Half)
    \/ SetDelegationPolicy("u1", "u1", Rebalancer, 50, 1000, 100, 3600)
    \/ RevokeDelegation("u1", "u1")
    \/ \E sender \in {Agent, Eve}, user \in {"u1", Null}, legs \in Legs,
          totalValue \in {0, 1000, 2000} :
          /\ (sender = Eve \/ user = Null) => totalValue = 1000
          /\ CreateRebalanceAction(sender, user, legs[1], legs[2], totalValue)
    \/ \E sender \in {Agent, Eve}, aid \in ActionIds, swapIndex \in {0, 1},
          actualAmountOut \in {98, 99} :
          /\ (sender = Eve \/ swapIndex = 1) => actualAmountOut = 99
          /\ ExecuteSwap(sender, aid, swapIndex, actualAmountOut)
    \/ \E sender \in {Agent, Eve}, aid \in ActionIds, bridgeIndex \in {0, 1},
          actualAmount \in {0, 50} :
          /\ (sender = Eve \/ bridgeIndex = 1) => actualAmount = 50
          /\ ExecuteBridge(sender, aid, bridgeIndex, actualAmount)
    \/ \E sender \in {Agent, Eve}, aid \in ActionIds :
          CompleteRebalanceAction(sender, aid)
    \/ \E sender \in {Admin, Agent}, aid \in ActionIds :
          EmergencyPause(sender, aid)

SpecRebalance == Init /\ [][NextRebalance]_vars

----------------------------------------------------------------------------
(* Inputs of the swap specification: swap legs between two tokens and of   *)
(* one token with itself, run at several amounts over balances left by     *)
(* earlier legs                                                            *)

Swap2 == SwapParams("tA", "tA", 100, 99, 1, "route2")

SwapLegs == {<<<<Swap1>>, <<Bridge1>>>>, <<<<Swap2>>, <<>>>>}

NextSwap ==
    \/ NewBlock
    \/ SetAuthorizedAgent(Admin, Agent, TRUE)
    \/ CreatePortfolio("u1", "u1", Half)
    \/ SetDelegationPolicy("u1", "u1", Rebalancer, 50, 1000, 100, 3600)
    \/ RevokeDelegation("u1", "u1")
    \/ \E legs \in SwapLegs :
          CreateRebalanceAction(Agent, "u1", legs[1], legs[2], 1000)
    \/ \E sender \in {Agent, Eve}, aid \in ActionIds, swapIndex \in {0, 1},
          actualAmountOut \in {98, 99, 100} :
          /\ (sender = Eve \/ swapIndex = 1) => actualAmountOut = 99
          /\ ExecuteSwap(sender, aid, swapIndex, actualAmountOut)
    \/ \E aid \in ActionIds : ExecuteBridge(Agent, aid, 0, 50)
    \/ \E aid \in ActionIds : CompleteRebalanceAction(Agent, aid)

SpecSwap == Init /\ [][NextSwap]_vars

----------------------------------------------------------------------------
(* Inputs of the drift specification: prices of a half, one and one and a  *)
(* half units, balances whose value is and is not a whole number of units  *)

UpdateTokenPrice(sender, chainId, token, price) ==
    LET r == updateTokenPrice(RBPM, sender, chainId, token, price)
    IN /\ SetBoth(r.st)
       /\ Record(r, "updateTokenPrice", <<sender, chainId, token, price>>, <<>>)
       /\ UNCHANGED <<litVars, now, blockNumber, svcVars>>

\* a view: the storage stays, the answer is recorded
CalculateDrift(user, tokens, currentBalances) ==
    LET r == calculateDrift(RBPM, user, tokens, currentBalances)
    IN /\ Record(r, "calculateDrift", <<user, tokens, currentBalances>>,
                 <<r.val>>)
       /\ UNCHANGED <<litVars, pmVars, rbVars, now, blockNumber, svcVars>>

Prices == {0, Wad \div 2, Wad, Wad + Wad \div 2}

Balances == {0, 1, 2, 3}

TokenLists == {<<>>, <<"tA">>, <<"tA", "tB">>, <<"tB", "tA">>}

BalanceLists == UNION {[1..k -> Balances] : k \in 0..2}

NextDrift ==
    \/ \E assets \in {Half, Whole} : CreatePortfolio("u1", "u1", assets)
    \/ \E assets \in {Half, Whole} : UpdatePortfolio("u1", "u1", assets)
    \/ \E sender \in {Admin, Eve}, token \in Tokens, price \in Prices :
          UpdateTokenPrice(sender, 1, token, price)
    \/ \E tokens \in TokenLists, currentBalances \in BalanceLists :
          CalculateDrift("u1", tokens, currentBalances)

SpecDrift == Init /\ [][NextDrift]_vars

----------------------------------------------------------------------------
(* Inputs of the allowlist specification: agents are listed and taken off   *)
(* the list again, and listed, unlisted and owner callers create actions    *)

AgentCallers == {Admin, Agent, Eve}

NextAgents ==
    \/ NewBlock
    \/ \E sender \in AgentCallers, agent \in {Agent, Eve},
          authorized \in BOOLEAN :
          SetAuthorizedAgent(sender, agent, authorized)
    \/ \E sender \in AgentCallers, user \in {"u1", Null},
          totalValue \in {0, 1000, 2000} :
          CreateRebalanceAction(sender, user, <<Swap1>>, <<Bridge1>>, totalValue)

SpecAgents == Init /\ [][NextAgents]_vars

----------------------------------------------------------------------------
(* Calls on LitProtocolService and the inputs of the signer specification: *)
(* two callers hold the one session object and sign single operations and  *)
(* batches, the signature service answers or fails, time passes            *)

\* createDelegationSession of the service: the session object is made
Service_CreateDelegationSession(sessionExpiry, maxOperations) ==
    /\ session = NoSession
    /\ session' = Service_createDelegationSession(
                      now, "u1", Agent, createPolicyHash(50, 1000, 100, 3600),
                      sessionExpiry, maxOperations)
    /\ UNCHANGED <<litVars, pmVars, rbVars, now, blockNumber, ret, signing,
                   signedOperations>>

\* the routine of caller c enters the signing of op with the rest of its
\* batch still to do: it throws, or it stamps the operation and awaits
Enter(c, r, rest) ==
    /\ signing' = [signing EXCEPT ![c] =
                      IF r.ok
                      THEN [pc |-> "signAndSave", todo |-> rest,
                            operation |-> r.operation]
                      ELSE Idle]
    /\ UNCHANGED <<litVars, pmVars, rbVars, now, blockNumber, ret, session,
                   signedOperations>>

\* signOperation is called, and runs to its await
SignOperation(c, operationType, operationData) ==
    /\ session # NoSession
    /\ signing[c].pc = "idle"
    /\ Enter(c, signOperation_enter(session, now, operationType,
                                    operationData), <<>>)

\* batchSignOperations is called, and runs to the await of its first turn
BatchSignOperations(c, operations) ==
    /\ session # NoSession
    /\ signing[c].pc = "idle"
    /\ operations # <<>>
    /\ Enter(c, batchSignOperations_turn(session, now, Head(operations)),
             Tail(operations))

\* the awaited signature arrives, or the signature service fails and
\* signOperation throws; after a signature the session is counted up and
\* the operation returned
SignAndSave(c, answered) ==
    /\ signing[c].pc = "signAndSave"
    /\ IF answered
       THEN /\ session' = signOperation_count(session)
            /\ signedOperations' =
                  Append(signedOperations,
                         signOperation_sign(signing[c].operation,
                                            session.policyHash))
            /\ signing' = [signing EXCEPT ![c] =
                              IF signing[c].todo = <<>> THEN Idle
                              ELSE [@ EXCEPT !.pc = "loop",
                                             !.operation = NoOperation]]
       ELSE /\ signing' = [signing EXCEPT ![c] = Idle]
            /\ UNCHANGED <<session, signedOperations>>
    /\ UNCHANGED <<litVars, pmVars, rbVars, now, blockNumber, ret>>

\* the loop of batchSignOperations takes its next turn
BatchTurn(c) ==
    /\ signing[c].pc = "loop"
    /\ Enter(c, batchSignOperations_turn(session, now,
                                         Head(signing[c].todo)),
             Tail(signing[c].todo))

SignRequests == {[type |-> 1, data |-> "d1"], [type |-> 2, data |-> "d2"]}

SignBatches == {<<a>> : a \in SignRequests} \cup {<<a, b>> : a, b \in SignRequests}

NextSigner ==
    \/ NewBlock
    \/ \E sessionExpiry \in {0, BlockInterval}, maxOperations \in 1..MaxOps :
          Service_CreateDelegationSession(sessionExpiry, maxOperations)
    \/ \E c \in Signers, op \in SignRequests :
          SignOperation(c, op.type, op.data)
    \/ \E c \in Signers, operations \in SignBatches :
          BatchSignOperations(c, operations)
    \/ \E c \in Signers, answered \in BOOLEAN : SignAndSave(c, answered)
    \/ \E c \in Signers : BatchTurn(c)

SpecSigner == Init /\ [][NextSigner]_vars

----------------------------------------------------------------------------
(* Transactions on IgnisX *)

SetAll(F) == SetLit(F.lit) /\ SetRB(F.rb) /\ SetPM(F.pm)

EnableAutopilot(sender, user, maxSlippage, maxRebalanceAmount, rebalanceThreshold, cooldownPeriod, sessionExpiry, maxOperations) ==
    LET r == enableAutopilot(IgnisXState, now, sender, user, maxSlippage,
                             maxRebalanceAmount, rebalanceThreshold,
                             cooldownPeriod, sessionExpiry, maxOperations)
    IN /\ Cardinality(DOMAIN r.st.lit.delegationSessions) <= MaxSessions
       /\ SetAll(r.st)
       /\ Record(r, "enableAutopilot",
                 <<sender, user, maxSlippage, maxRebalanceAmount,
                   rebalanceThreshold, cooldownPeriod, sessionExpiry,
                   maxOperations>>,
                 IF r.ok THEN <<r.sessionId>> ELSE <<>>)
       /\ UNCHANGED <<now, blockNumber, svcVars>>

DisableAutopilot(sender, user) ==
    LET r == disableAutopilot(IgnisXState, sender, user)
    IN /\ SetAll(r.st)
       /\ Record(r, "disableAutopilot", <<sender, user>>, <<>>)
       /\ UNCHANGED <<now, blockNumber, svcVars>>

TriggerRebalancing(sender, user, swaps, bridges, totalValue, sid, op) ==
    LET r == triggerRebalancing(IgnisXState, now, blockNumber, sender, user,
                                swaps, bridges, totalValue, sid, op)
    IN /\ Cardinality(r.st.lit.usedSignatures) <= MaxUsed
       /\ Cardinality(DOMAIN r.st.rb.rebalanceActions) <= MaxActions
       /\ SetAll(r.st)
       /\ Record(r, "triggerRebalancing",
                 <<sender, user, swaps, bridges, totalValue, sid, op>>,
                 IF r.ok THEN <<r.actionId>> ELSE <<>>)
       /\ UNCHANGED <<now, blockNumber, svcVars>>

IgnisX_ExecuteSwap(sender, aid, swapIndex, actualAmountOut, sid, op) ==
    LET r == IgnisX_executeSwap(IgnisXState, now, sender, aid, swapIndex,
                                actualAmountOut, sid, op)
    IN /\ Cardinality(r.st.lit.usedSignatures) <= MaxUsed
       /\ SetAll(r.st)
       /\ Record(r, "IgnisX.executeSwap",
                 <<sender, aid, swapIndex, actualAmountOut, sid, op>>, <<>>)
       /\ UNCHANGED <<now, blockNumber, svcVars>>

IgnisX_ExecuteBridge(sender, aid, bridgeIndex, actualAmount, sid, op) ==
    LET r == IgnisX_executeBridge(IgnisXState, now, sender, aid, bridgeIndex,
                                  actualAmount, sid, op)
    IN /\ Cardinality(r.st.lit.usedSignatures) <= MaxUsed
       /\ SetAll(r.st)
       /\ Record(r, "IgnisX.executeBridge",
                 <<sender, aid, bridgeIndex, actualAmount, sid, op>>, <<>>)
       /\ UNCHANGED <<now, blockNumber, svcVars>>

CompleteRebalancing(sender, aid, sid, op) ==
    LET r == completeRebalancing(IgnisXState, now, sender, aid, sid, op)
    IN /\ Cardinality(r.st.lit.usedSignatures) <= MaxUsed
       /\ SetAll(r.st)
       /\ Record(r, "completeRebalancing", <<sender, aid, sid, op>>, <<>>)
       /\ UNCHANGED <<now, blockNumber, svcVars>>

IgnisX_SetAuthorizedAgent(sender, agent, authorized) ==
    LET r == IgnisX_setAuthorizedAgent(IgnisXState, sender, agent, authorized)
    IN /\ SetAll(r.st)
       /\ Record(r, "IgnisX.setAuthorizedAgent",
                 <<sender, agent, authorized>>, <<>>)
       /\ UNCHANGED <<now, blockNumber, svcVars>>

IgnisX_EmergencyPause(sender, aid) ==
    LET r == IgnisX_emergencyPause(IgnisXState, sender, aid)
    IN /\ SetAll(r.st)
       /\ Record(r, "IgnisX.emergencyPause", <<sender, aid>>, <<>>)
       /\ UNCHANGED <<now, blockNumber, svcVars>>

----------------------------------------------------------------------------
(* Inputs of the facade specification: the facade's entry points, and the  *)
(* direct calls an outside account can make on the three contracts         *)

\* the policy of the integration test: 0.5%, 1000, 1%, one hour
TestPolicyHash == createPolicyHash(50, 1000, 100, 3600)

\* operations of u1 signed by u1, addressed to the rebalancer or the facade
FacadeOps ==
    {SignedOp("u1", Body("u1", Rebalancer, n, "d1"), TestPolicyHash) :
        n \in Nonces}
    \cup {SignedOp("u1", Body("u1", Facade, n, d), TestPolicyHash) :
             n \in Nonces, d \in Data}

NextFacade ==
    \/ CreatePortfolio("u1", "u1", Half)
    \/ \E sender \in {"u1", Deployer, Eve}, maxSlippage \in {50, 1001},
          cooldownPeriod \in {3599, 3600},
          sessionExpiry \in {now, SessionDeadline}, maxOperations \in {0, MaxOps} :
          /\ (sender = Eve \/ maxSlippage = 1001 \/ cooldownPeriod = 3599
                \/ sessionExpiry = now) => maxOperations = MaxOps
          /\ EnableAutopilot(sender, "u1", maxSlippage, 1000, 100,
                             cooldownPeriod, sessionExpiry, maxOperations)
    \/ \E sender \in {"u1", Eve} : DisableAutopilot(sender, "u1")
    \/ \E sid \in DOMAIN delegationSessions : RevokeDelegationSession("u1", sid)
    \/ SetDelegationPolicy("u1", "u1", Rebalancer, 50, 1000, 100, 3600)
    \/ \E sender \in {Deployer, Eve}, agent \in {Agent, Facade} :
          IgnisX_SetAuthorizedAgent(sender, agent, TRUE)
    \/ CreateDelegationSession("u1", Facade, SessionDeadline, TestPolicyHash,
                               MaxOps)
    \/ \E sid \in SessionIds, op \in FacadeOps, totalValue \in {0, 1000} :
          /\ (sid = UnknownSession \/ totalValue = 0) => op.data = "d1"
          /\ TriggerRebalancing(Agent, "u1", <<Swap1>>, <<Bridge1>>,
                                totalValue, sid, op)
    \/ \E aid \in ActionIds, sid \in DOMAIN delegationSessions,
          op \in FacadeOps, actualAmountOut \in {98, 99} :
          /\ (aid = UnknownAction \/ actualAmountOut = 98) => op.data = "d1"
          /\ IgnisX_ExecuteSwap(Agent, aid, 0, actualAmountOut, sid, op)
    \/ \E aid \in ActionIds, sid \in DOMAIN delegationSessions,
          op \in FacadeOps :
          /\ aid = UnknownAction => op.data = "d1"
          /\ IgnisX_ExecuteBridge(Agent, aid, 0, 50, sid, op)
    \/ \E aid \in ActionIds, sid \in DOMAIN delegationSessions,
          op \in FacadeOps :
          /\ aid = UnknownAction => op.data = "d1"
          /\ CompleteRebalancing(Agent, aid, sid, op)
    \/ \E sender \in {Deployer, Agent}, aid \in ActionIds :
          IgnisX_EmergencyPause(sender, aid)
    \/ \E sender \in {Agent, Eve} :
          CreateRebalanceAction(sender, "u1", <<Swap1>>, <<Bridge1>>, 1000)
    \/ \E aid \in ActionIds : ExecuteSwap(Agent, aid, 0, 99)
    \/ \E aid \in ActionIds : CompleteRebalanceAction(Agent, aid)

SpecFacade == Init /\ [][NextFacade]_vars

----------------------------------------------------------------------------
(* Claims on the session authority *)

VerifyingCalls ==
    {"verifySignedOperation", "executeOperation", "batchExecuteOperations"}

\* the signatures carried by the call recorded in r
CarriedSigs(r) ==
    IF r.op = "verifySignedOperation" THEN {r.args[2].signature}
    ELSE IF r.op = "executeOperation" THEN {r.args[3].signature}
    ELSE IF r.op = "batchExecuteOperations"
         THEN {r.args[3][i].signature : i \in 1..Len(r.args[3])}
    ELSE {}

CarriedCount(r) ==
    IF r.op = "batchExecuteOperations" THEN Len(r.args[3]) ELSE 1

\* every call that carries a used signature is rejected, on every session
UsedIsRejected ==
    /\ \A sid \in SessionIds, op \in Ops :
          op.signature \in usedSignatures =>
             /\ ~verifySignedOperation(LitState, now, sid, op).ok
             /\ \A sender \in Callers :
                   ~executeOperation(LitState, now, sender, sid, op).ok
    /\ \A sid \in SessionIds, operations \in Batches, sender \in Callers :
          (\E i \in 1..Len(operations) :
              operations[i].signature \in usedSignatures) =>
             ~batchExecuteOperations(LitState, now, sender, sid, operations,
                                     Len(operations)).ok

\* C1: a signature is accepted at most once.  A used signature stays used,
\* every verifySignedOperation, executeOperation or batchExecuteOperations
\* carrying a used signature is rejected whatever session it addresses, and
\* a call that is accepted carries only signatures that were unused before
\* it (pairwise distinct within a batch) and are used after it.
C1_AtMostOnce ==
    /\ []UsedIsRejected
    /\ [][/\ usedSignatures \subseteq usedSignatures'
          /\ ret'.op \in VerifyingCalls =>
                /\ CarriedSigs(ret') \subseteq usedSignatures' \ usedSignatures
                /\ Cardinality(CarriedSigs(ret')) = CarriedCount(ret')]_vars

\* a signature consumed on the session with nonce 0 is replayed, on the
\* operation with nonce 1, to another valid session, which rejects it
C1_Witness ==
    /\ ret.op = "executeOperation"
    /\ ret.args[3] = Op0
    /\ Op0.signature \in usedSignatures
    /\ \E sid \in DOMAIN delegationSessions :
          /\ sid # ret.args[2]
          /\ isSessionValid(LitState, now, sid)
          /\ \E op \in Transplanted :
                /\ op.nonce = delegationSessions[sid].nonce
                /\ verifySignedOperation(LitState, now, sid, op).err
                      = "Signature already used"

\* C2 (as claimed): the k-th operation a session executes carries nonce
\* k-1, so a session with maxOperations = N executes nonces 0, 1, ..., N-1.
C2_NoncesInOrder ==
    ret.op = "executeOperation" =>
        ret.args[3].nonce = delegationSessions[ret.args[2]].operationsUsed - 1

\* C3 (as claimed): a successful executeOperation increases the session's
\* nonce and its operationsUsed by exactly 1.
C3_ExecuteIncrementsBoth ==
    [][ret'.op = "executeOperation" =>
          LET sid == ret'.args[2] IN
          /\ delegationSessions'[sid].operationsUsed
                = delegationSessions[sid].operationsUsed + 1
          /\ delegationSessions'[sid].nonce
                = delegationSessions[sid].nonce + 1]_vars

\* a batch that fails leaves the storage as it was
BatchFailureIsVoid ==
    \A sid \in SessionIds, operations \in Batches, sender \in Callers,
       extra \in {0, 1} :
        LET r == batchExecuteOperations(LitState, now, sender, sid, operations,
                                        Len(operations) + extra)
        IN ~r.ok => r.st = LitState

\* C4: batchExecuteOperations is all-or-nothing.  A batch in which any
\* verification fails leaves operationsUsed, nonce and the used-signature
\* set as before the call; the only batch steps that change them are those
\* in which every operation of the batch was verified: all its signatures
\* become used and operationsUsed grows by the length of the batch.
C4_BatchAllOrNothing ==
    /\ []BatchFailureIsVoid
    /\ [][ret'.op = "batchExecuteOperations" =>
            LET sid == ret'.args[2]
                operations == ret'.args[3]
            IN /\ usedSignatures' = usedSignatures \cup CarriedSigs(ret')
               /\ delegationSessions'[sid].operationsUsed
                     = delegationSessions[sid].operationsUsed + Len(operations)
               /\ \A i \in 1..Len(operations) :
                     /\ operations[i].signature \notin usedSignatures
                     /\ operations[i].nonce = delegationSessions[sid].nonce
                     /\ operations[i].signature.signer
                           = delegationSessions[sid].user]_vars

\* a session with room for two operations is offered a batch whose first
\* operation verifies (and would be marked used) and whose second fails
C4_Witness ==
    \E sid \in DOMAIN delegationSessions, operations \in Batches :
        /\ Len(operations) = 2
        /\ verifySignedOperation(LitState, now, sid, operations[1]).ok
        /\ batchLoop(LitState, now, sid, operations, 1).st.usedSignatures
              # usedSignatures
        /\ ~batchExecuteOperations(LitState, now, Agent, sid, operations, 2).ok
        /\ batchExecuteOperations(LitState, now, Agent, sid, operations, 2).err
              \in {"Invalid signature", "Signature already used"}

----------------------------------------------------------------------------
(* Claims on the portfolio's asset list *)

RECURSIVE TotalFrom(_, _)
TotalFrom(assets, i) ==
    IF i > Len(assets) THEN 0
    ELSE assets[i].targetPercentage + TotalFrom(assets, i + 1)

\* the targets add up to 100% and none of them is zero
Balanced(assets) ==
    /\ TotalFrom(assets, 1) = 10000
    /\ \A i \in 1..Len(assets) : assets[i].targetPercentage > 0

\* non-empty, every token id non-null
WellFormed(assets) ==
    /\ Len(assets) > 0
    /\ \A i \in 1..Len(assets) : assets[i].tokenAddress # Null

\* C5: in every reachable state, every active portfolio has targets that sum
\* to exactly 10000 and are all > 0, whatever createPortfolio, updatePortfolio,
\* addAsset and removeAsset calls led there.
C5_PortfolioInvariant ==
    \A u \in Users : portfolios[u].isActive => Balanced(portfolios[u].assets)

CreateDecides ==
    \A sender \in {"u1", Admin}, assets \in AssetLists :
        (WellFormed(assets) /\ ~portfolios["u1"].isActive) =>
            LET r == createPortfolio(PMState, sender, "u1", assets) IN
            /\ r.ok <=> Balanced(assets)
            /\ ~r.ok => r.st = PMState
            /\ r.ok => /\ r.st.portfolios["u1"].isActive
                       /\ r.st.portfolios["u1"].assets = assets

UpdateDecides ==
    \A sender \in {"u1", Admin}, assets \in AssetLists :
        (WellFormed(assets) /\ portfolios["u1"].isActive) =>
            LET r == updatePortfolio(PMState, sender, "u1", assets) IN
            /\ r.ok <=> Balanced(assets)
            /\ ~r.ok => r.st = PMState
            /\ r.ok => r.st.portfolios["u1"].assets = assets

\* C6: for a non-empty asset list with non-null tokens, createPortfolio (no
\* active portfolio) and updatePortfolio (an active one) succeed if and only
\* if the targets sum to 10000 and are all > 0; a rejected call leaves the
\* storage as it was, and a call that went through stored a balanced list.
C6_SucceedsIffBalanced ==
    /\ [](CreateDecides /\ UpdateDecides)
    /\ [][ret'.op \in {"createPortfolio", "updatePortfolio"} =>
              /\ Balanced(ret'.args[3])
              /\ portfolios'[ret'.args[2]].assets = ret'.args[3]]_vars

\* an update went through on an active portfolio, and in the same state lists
\* summing to 9999 and to 10001 are turned down
C6_Witness ==
    /\ ret.op = "updatePortfolio"
    /\ portfolios["u1"].assets = ret.args[3]
    /\ \E lo, hi \in AssetLists :
          /\ WellFormed(lo) /\ TotalFrom(lo, 1) = 9999
          /\ WellFormed(hi) /\ TotalFrom(hi, 1) = 10001
          /\ ~updatePortfolio(PMState, "u1", "u1", lo).ok
          /\ ~updatePortfolio(PMState, "u1", "u1", hi).ok

----------------------------------------------------------------------------
(* Claims on drift and cooldown *)

Distance(a, b) == CHOOSE x \in {a - b, b - a} : x >= 0

\* max_i |current_i - target_i|, 0 for an empty list
MaxDrift(assets, currentAllocations) ==
    LET ds == {Distance(currentAllocations[i], assets[i].targetPercentage) :
                 i \in 1..Len(assets)}
    IN IF ds = {} THEN 0 ELSE CHOOSE m \in ds : \A x \in ds : x <= m

\* active policy, cooldown elapsed, one allocation per asset
DriftIsAsked(u, currentAllocations) ==
    /\ delegationPolicies[u].isActive
    /\ now >= portfolios[u].lastRebalance + delegationPolicies[u].cooldownPeriod
    /\ Len(currentAllocations) = Len(portfolios[u].assets)

\* C7: with an active policy, the cooldown elapsed and one allocation per
\* asset, needsRebalancing answers true if and only if the largest
\* |current - target| is strictly greater than the policy's threshold; a drift
\* equal to the threshold gives false.
C7_DriftDecides ==
    /\ \A currentAllocations \in AllocLists :
          DriftIsAsked("u1", currentAllocations) =>
              LET r == needsRebalancing(PMState, now, "u1", currentAllocations)
              IN /\ r.ok
                 /\ r.val <=> MaxDrift(portfolios["u1"].assets, currentAllocations)
                                  > delegationPolicies["u1"].rebalanceThreshold
    /\ (ret.op = "needsRebalancing" /\ DriftIsAsked(ret.args[1], ret.args[2])) =>
          (ret.val[1] <=>
              MaxDrift(portfolios[ret.args[1]].assets, ret.args[2])
                  > delegationPolicies[ret.args[1]].rebalanceThreshold)

\* targets [5000, 5000], threshold 100: [5100, 4900] was asked and answered
\* false, [6000, 4000] gives true and [5050, 4950] false in the same state
C7_Witness ==
    /\ portfolios["u1"].assets = Half
    /\ delegationPolicies["u1"].rebalanceThreshold = 100
    /\ DriftIsAsked("u1", <<5100, 4900>>)
    /\ ret = Call("needsRebalancing", <<"u1", <<5100, 4900>>>>, <<FALSE>>)
    /\ needsRebalancing(PMState, now, "u1", <<6000, 4000>>).val
    /\ ~needsRebalancing(PMState, now, "u1", <<5050, 4950>>).val

RebalancesOf(u) ==
    {i \in 1..Len(rebalanceExecuted) : rebalanceExecuted[i][1] = u}

\* any two RebalanceExecuted events of one owner are at least an hour apart
HourApart ==
    \A u \in Users : \A i, j \in RebalancesOf(u) :
        i < j => rebalanceExecuted[j][4] - rebalanceExecuted[i][4] >= 3600

\* C10: between two successful executeRebalance calls for one owner at least
\* the cooldown of the policy in force at the second call, and so at least
\* 3600 seconds, has passed, whatever happened to the policy in between.
C10_CooldownBetweenRebalances ==
    /\ []HourApart
    /\ [][\/ rebalanceExecuted' = rebalanceExecuted
          \/ \E e \in {rebalanceExecuted'[Len(rebalanceExecuted')]} :
                /\ rebalanceExecuted' = Append(rebalanceExecuted, e)
                /\ e[4] = now
                /\ portfolios'[e[1]].lastRebalance = now
                /\ \A i \in RebalancesOf(e[1]) :
                      e[4] - rebalanceExecuted[i][4]
                          >= delegationPolicies[e[1]].cooldownPeriod]_vars

\* a second rebalance of u1 just went through, exactly one cooldown after the
\* first, and a third one is refused in the same block
C10_Witness ==
    /\ Cardinality(RebalancesOf("u1")) = 2
    /\ ret.op = "executeRebalance"
    /\ portfolios["u1"].lastRebalance = now
    /\ rebalanceExecuted[2][4] - rebalanceExecuted[1][4]
           = delegationPolicies["u1"].cooldownPeriod
    /\ ~executeRebalance(PMState, now, Agent, "u1", 1000).ok

----------------------------------------------------------------------------
(* Claims on the life of a rebalance action *)

\* C8: completeRebalanceAction goes through at most once per action id: no
\* two RebalanceActionExecuted events carry the same id, so a second call
\* never stamps the portfolio's lastRebalance and totalValue again.
C8_CompleteOnce ==
    \A i, j \in 1..Len(actionExecuted) :
        i < j => actionExecuted[i][1] # actionExecuted[j][1]

\* on an action whose executed flag is set no leg can be run
LegsAreShut ==
    \A aid \in DOMAIN rebalanceActions :
        rebalanceActions[aid].executed =>
            \A sender \in {Agent, Eve}, index \in {0, 1}, amount \in {50, 99} :
                /\ ~executeSwap(RBPM, sender, aid, index, amount).ok
                /\ ~executeBridge(RBPM, sender, aid, index, amount).ok

\* C9: once an action's executed flag is true it is true in every later
\* state, and executeSwap / executeBridge on it fail and leave the balances.
C9_TerminalIsForever ==
    /\ []LegsAreShut
    /\ [][\A aid \in DOMAIN rebalanceActions :
              rebalanceActions[aid].executed =>
                  /\ aid \in DOMAIN rebalanceActions'
                  /\ rebalanceActions'[aid].executed]_vars

----------------------------------------------------------------------------
(* Claims on the end of a session *)

Revoked(S, sid) == ~S[sid].isActive

Expired(S, t, sid) == t > S[sid].expiry

Exhausted(S, sid) == S[sid].operationsUsed = S[sid].maxOperations

Terminal(S, t, sid) == Revoked(S, sid) \/ Expired(S, t, sid) \/ Exhausted(S, sid)

\* a terminal session answers invalid and takes no operation from anybody
TerminalIsInvalid ==
    \A sid \in DOMAIN delegationSessions :
        Terminal(delegationSessions, now, sid) =>
            /\ ~isSessionValid(LitState, now, sid)
            /\ \A op \in Ops :
                  /\ ~verifySignedOperation(LitState, now, sid, op).ok
                  /\ \A sender \in Callers :
                        ~executeOperation(LitState, now, sender, sid, op).ok
            /\ \A operations \in Batches, sender \in Callers :
                  ~batchExecuteOperations(LitState, now, sender, sid, operations,
                                          Len(operations)).ok

\* C11: a session that is revoked, expired or exhausted is invalid, every
\* verifySignedOperation, executeOperation and batchExecuteOperations on it
\* fails, and each of the three conditions, once true, stays true.
C11_TerminalIsAbsorbing ==
    /\ []TerminalIsInvalid
    /\ [][\A sid \in DOMAIN delegationSessions :
              /\ sid \in DOMAIN delegationSessions'
              /\ Revoked(delegationSessions, sid)
                    => Revoked(delegationSessions', sid)
              /\ Expired(delegationSessions, now, sid)
                    => Expired(delegationSessions', now', sid)
              /\ Exhausted(delegationSessions, sid)
                    => Exhausted(delegationSessions', sid)]_vars

\* one session was revoked and another used up, and both are past expiry
C11_Witness ==
    \E s1, s2 \in DOMAIN delegationSessions :
        /\ Revoked(delegationSessions, s1)
        /\ ~Revoked(delegationSessions, s2)
        /\ Exhausted(delegationSessions, s2)
        /\ Expired(delegationSessions, now, s1)
        /\ Expired(delegationSessions, now, s2)

----------------------------------------------------------------------------
(* Claims on the facade and on what the rebalancer does without it *)

\* operations consumed so far, over all sessions
RECURSIVE SumUsed(_, _)
SumUsed(S, sids) ==
    IF sids = {} THEN 0
    ELSE LET sid == CHOOSE x \in sids : TRUE
         IN S[sid].operationsUsed + SumUsed(S, sids \ {sid})

OperationsUsed(S) == SumUsed(S, DOMAIN S)

\* C12: the rebalancer acts only after the session authority has accepted a
\* signed operation: a step that creates an action, changes a cached balance
\* or stamps a portfolio also consumes a signed operation of some session.
C12_ActsOnlyWhenSigned ==
    [][(\/ DOMAIN rebalanceActions' # DOMAIN rebalanceActions
        \/ userBalances' # userBalances
        \/ rebalanceExecuted' # rebalanceExecuted)
          => /\ usedSignatures' # usedSignatures
             /\ OperationsUsed(delegationSessions')
                   > OperationsUsed(delegationSessions)]_vars

\* C13: no rebalance action is created, and none is completed, for an owner
\* with a totalValue above the maxRebalanceAmount of the owner's active policy.
C13_AmountWithinPolicy ==
    [][/\ (/\ ret'.op = "createRebalanceAction"
           /\ delegationPolicies[ret'.args[2]].isActive)
          => ret'.args[5]
                <= delegationPolicies[ret'.args[2]].maxRebalanceAmount
       /\ rebalanceExecuted' # rebalanceExecuted
          => LET e == rebalanceExecuted'[Len(rebalanceExecuted')]
             IN e[3] <= delegationPolicies[e[1]].maxRebalanceAmount]_vars

----------------------------------------------------------------------------
(* Claims on the legs of an action *)

\* the swap legs an authorized agent can reach: action known and not
\* executed, index in range
OpenSwapLegs ==
    {<<aid, i>> \in (DOMAIN rebalanceActions) \X {0, 1} :
        /\ Agent \in authorizedAgents
        /\ ~rebalanceActions[aid].executed
        /\ i < Len(rebalanceActions[aid].swaps)}

MinAmountOut(leg) == rebalanceActions[leg[1]].swaps[leg[2] + 1].minAmountOut

SlippageIsChecked ==
    \A leg \in OpenSwapLegs :
        LET under == executeSwap(RBPM, Agent, leg[1], leg[2],
                                 MinAmountOut(leg) - 1)
            exact == executeSwap(RBPM, Agent, leg[1], leg[2], MinAmountOut(leg))
        IN /\ ~under.ok
           /\ under.err = "Slippage too high"
           /\ under.st = RBPM
           /\ exact.err # "Slippage too high"

\* C14: executeSwap with actualAmountOut below the leg's minAmountOut is
\* rejected with the slippage error and leaves the executed flag and the
\* balances as they were; with actualAmountOut equal to minAmountOut the
\* slippage check passes.  No executeSwap that went through was below it.
C14_SlippageRejected ==
    /\ []SlippageIsChecked
    /\ [][ret'.op = "executeSwap" =>
              ret'.args[4] >=
                  rebalanceActions[ret'.args[2]].swaps[ret'.args[3] + 1]
                      .minAmountOut]_vars

\* a swap went through at exactly minAmountOut, and one unit less is refused
C14_Witness ==
    /\ ret.op = "executeSwap"
    /\ <<ret.args[2], ret.args[3]>> \in OpenSwapLegs
    /\ ret.args[4] = MinAmountOut(<<ret.args[2], ret.args[3]>>)
    /\ userBalances["u1"]["tB"] = ret.args[4]
    /\ ~executeSwap(RBPM, Agent, ret.args[2], ret.args[3], ret.args[4] - 1).ok

----------------------------------------------------------------------------
(* Claims on enabling the autopilot and on swaps without a policy *)

\* C15: enableAutopilot called by the user for themself with maxSlippage and
\* rebalanceThreshold <= 1000, cooldownPeriod >= 3600, an expiry in the future
\* and maxOperations > 0 succeeds, returns a valid session and leaves an
\* active policy, whether or not the user has created a portfolio.
C15_EnableAutopilotSucceeds ==
    LET r == enableAutopilot(IgnisXState, now, "u1", "u1", 50, 1000, 100, 3600,
                             SessionDeadline, MaxOps)
    IN /\ r.ok
       /\ isSessionValid(r.st.lit, now, r.sessionId)
       /\ r.st.pm.delegationPolicies["u1"].isActive

\* C16: on an action created by an authorized agent, executeSwap by that
\* agent with a leg index in range and actualAmountOut >= minAmountOut
\* succeeds and credits actualAmountOut, whether or not the action's owner
\* has a portfolio and a delegation policy.
C16_SwapSucceeds ==
    \A leg \in OpenSwapLegs : \A extra \in {0, 1} :
        LET action == rebalanceActions[leg[1]]
            out    == MinAmountOut(leg) + extra
            r      == executeSwap(RBPM, Agent, leg[1], leg[2], out)
        IN /\ r.ok
           /\ r.st.pm.userBalances[action.user]
                  [action.swaps[leg[2] + 1].tokenOut] = out

\* the sessions enableAutopilot made: their delegate is the rebalancer
AutopilotSessions ==
    {sid \in DOMAIN delegationSessions :
        delegationSessions[sid].delegate = Rebalancer}

\* the operation with the session's current nonce, signed by its owner
CurrentOp(sid, data) ==
    LET s == delegationSessions[sid] IN
    SignedOp(s.user, Body(s.user, s.delegate, s.nonce, data), s.policyHash)

\* C17: once enableAutopilot has returned a session, a facade
\* triggerRebalancing for that session with an operation correctly signed by
\* the owner with the session's current nonce is accepted: the session counts
\* one more operation and a rebalance action is created.  (The session is
\* valid and the facade is an authorized agent of the rebalancer.)
C17_FacadeAccepts ==
    \A sid \in AutopilotSessions :
        (/\ isSessionValid(LitState, now, sid)
         /\ Facade \in authorizedAgents) =>
            \E data \in Data, sender \in {Agent, "u1", Deployer} :
                LET s == delegationSessions[sid]
                    r == triggerRebalancing(IgnisXState, now, blockNumber,
                                            sender, s.user, <<Swap1>>,
                                            <<Bridge1>>, 1000, sid,
                                            CurrentOp(sid, data))
                IN /\ r.ok
                   /\ r.st.lit.delegationSessions[sid].operationsUsed
                         = s.operationsUsed + 1
                   /\ r.actionId \in DOMAIN r.st.rb.rebalanceActions

----------------------------------------------------------------------------
(* Claims on revocation *)

\* without an active policy nothing is done for the owner: no updateBalance,
\* no executeRebalance, and no leg or completion of any of the owner's actions
InactiveIsShut ==
    \A u \in Users :
        ~delegationPolicies[u].isActive =>
            /\ \A sender \in {Rebalancer, Agent, Admin, u} :
                  /\ \A k \in Tokens :
                        ~updateBalance(PMState, sender, u, k, 100).ok
                  /\ ~executeRebalance(PMState, now, sender, u, 1000).ok
            /\ \A aid \in DOMAIN rebalanceActions :
                  rebalanceActions[aid].user = u =>
                      \A sender \in {Agent, Admin} :
                          /\ ~executeSwap(RBPM, sender, aid, 0, 99).ok
                          /\ ~executeBridge(RBPM, sender, aid, 0, 50).ok
                          /\ ~completeRebalanceAction(RBPM, now, sender, aid).ok

\* C18: after revokeDelegation(owner) the policy is inactive, it stays so
\* until a setDelegationPolicy for that owner goes through, and while it is
\* inactive no updateBalance or executeRebalance for the owner succeeds, so
\* no executeSwap, executeBridge or completeRebalanceAction takes effect.
C18_RevocationIsObserved ==
    /\ []InactiveIsShut
    /\ [][\A u \in Users :
              /\ (ret'.op = "revokeDelegation" /\ ret'.args[2] = u)
                    => ~delegationPolicies'[u].isActive
              /\ (~delegationPolicies[u].isActive /\ delegationPolicies'[u].isActive)
                    => (ret'.op = "setDelegationPolicy" /\ ret'.args[2] = u)
              /\ ~delegationPolicies[u].isActive
                    => /\ userBalances'[u] = userBalances[u]
                       /\ portfolios'[u] = portfolios[u]
                             \/ ret'.op = "createPortfolio"]_vars

\* the policy of u1 was just revoked while an action of u1 is open, with a
\* rebalancer that is still the recorded delegate
C18_Witness ==
    /\ ret.op = "revokeDelegation"
    /\ ~delegationPolicies["u1"].isActive
    /\ delegationPolicies["u1"].delegate = Rebalancer
    /\ \E leg \in OpenSwapLegs : rebalanceActions[leg[1]].user = "u1"

----------------------------------------------------------------------------
(* Claims on revoking a session *)

MayRevoke(sender, sid) ==
    /\ sid \in DOMAIN delegationSessions
    /\ delegationSessions[sid].isActive
    /\ sender = delegationSessions[sid].user \/ sender = Admin

RevokeDecides ==
    \A sender \in Callers, sid \in SessionIds :
        LET r == revokeDelegationSession(LitState, sender, sid) IN
        /\ r.ok <=> MayRevoke(sender, sid)
        /\ ~r.ok => r.st = LitState
        /\ r.ok => /\ ~isSessionValid(r.st, now, sid)
                   /\ \A again \in Callers :
                         ~revokeDelegationSession(r.st, again, sid).ok

\* C19: revokeDelegationSession succeeds exactly for the session's user or
\* the admin on an active session; any other call, and a call on an inactive
\* or unknown session, reverts and changes nothing; after a revoke that went
\* through the session is not valid and a second revoke reverts.
C19_RevokeOnlyByOwnerOrAdmin ==
    /\ []RevokeDecides
    /\ [][(ret' # ret /\ ret'.op = "revokeDelegationSession")
             => /\ MayRevoke(ret'.args[1], ret'.args[2])
                /\ ~isSessionValid(LitState', now', ret'.args[2])]_vars

\* u1 has just revoked its own session, which the agent and a stranger
\* could not have revoked and nobody can revoke again
C19_Witness ==
    /\ ret.op = "revokeDelegationSession"
    /\ ret.args[1] = "u1"
    /\ ~delegationSessions[ret.args[2]].isActive
    /\ \A sender \in Callers :
          ~revokeDelegationSession(LitState, sender, ret.args[2]).ok
    /\ \E sid \in DOMAIN delegationSessions :
          /\ delegationSessions[sid].isActive
          /\ ~revokeDelegationSession(LitState, Agent, sid).ok
          /\ ~revokeDelegationSession(LitState, Eve, sid).ok

----------------------------------------------------------------------------
(* Claims on action ids *)

\* C20: action ids are unique: a createRebalanceAction that goes through
\* returns an id under which no action is stored yet, also for the same user
\* and the same numbers of legs in the same block, so it never writes over a
\* stored RebalanceAction.
C20_ActionIdsUnique ==
    \A user \in Users, legs \in Legs, totalValue \in {1000, 2000} :
        LET r == createRebalanceAction(RBPM, now, blockNumber, Agent, user,
                                       legs[1], legs[2], totalValue)
        IN r.ok => /\ r.actionId \notin DOMAIN rebalanceActions
                   /\ \A aid \in DOMAIN rebalanceActions :
                         r.st.rb.rebalanceActions[aid] = rebalanceActions[aid]

----------------------------------------------------------------------------
(* Claims on session ids *)

\* every stored session carries a counter value its user has already passed
CounterIsAhead ==
    \A sid \in DOMAIN delegationSessions :
        delegationSessions[sid].nonce < userNonces[delegationSessions[sid].user]

CreateIsFresh ==
    \A user \in Users, delegate \in {Agent, Facade}, maxOperations \in 1..MaxOps :
        LET r == createDelegationSession(LitState, now, user, delegate,
                                         now + 1, "ph1", maxOperations)
        IN /\ r.ok
           /\ r.sessionId \notin DOMAIN delegationSessions
           /\ r.st.userNonces[user] > userNonces[user]
           /\ \A sid \in DOMAIN delegationSessions :
                 r.st.delegationSessions[sid] = delegationSessions[sid]

\* C21: session ids are unique: a createDelegationSession that goes through
\* returns an id under which no session is stored, also for the same user and
\* delegate at the same timestamp, because the user's counter grows with
\* every session created; no stored session is written over by a create.
C21_SessionIdsUnique ==
    /\ [](CounterIsAhead /\ CreateIsFresh)
    /\ [][/\ \A u \in Users : userNonces'[u] >= userNonces[u]
          /\ ret'.op = "createDelegationSession" /\ ret' # ret
                => /\ ret'.val[1] \notin DOMAIN delegationSessions
                   /\ ret'.val[1] \in DOMAIN delegationSessions'
                   /\ userNonces'[ret'.args[1]] = userNonces[ret'.args[1]] + 1]_vars

\* two sessions of the same user and delegate created at the same timestamp
C21_Witness ==
    /\ ret.op = "createDelegationSession"
    /\ \E a, b \in DOMAIN delegationSessions :
          /\ a # b
          /\ delegationSessions[a].user = delegationSessions[b].user
          /\ delegationSessions[a].delegate = delegationSessions[b].delegate
          /\ a[4] = b[4]
          /\ delegationSessions[a].nonce # delegationSessions[b].nonce

----------------------------------------------------------------------------
(* Claims on a verification that does not accept *)

\* C22: a verifySignedOperation that does not accept the operation (it
\* reverts, or the signature does not recover to the session's user) leaves
\* the used signatures and the sessions as they were: the signature is not
\* consumed.
C22_RejectedIsVoid ==
    \A sid \in SessionIds, op \in Ops :
        LET r == verifySignedOperation(LitState, now, sid, op) IN
        ~(r.ok /\ r.valid) =>
            /\ r.st.usedSignatures = usedSignatures
            /\ r.st.delegationSessions = delegationSessions

----------------------------------------------------------------------------
(* Claims on the limits of a policy *)

WithinLimits(p) ==
    /\ p.delegate # Null
    /\ p.maxSlippage <= 1000
    /\ p.rebalanceThreshold <= 1000
    /\ p.cooldownPeriod >= 3600

ActivePoliciesWithinLimits ==
    \A u \in Users :
        delegationPolicies[u].isActive => WithinLimits(delegationPolicies[u])

\* for the owner of an existing portfolio, or the admin on its behalf
SetPolicyDecides ==
    \A u \in Users : \A sender \in {u, Admin}, delegate \in {Agent, Rebalancer, Null},
       maxSlippage \in {1000, 1001}, maxRebalanceAmount \in {0, 2000},
       rebalanceThreshold \in {1000, 1001}, cooldownPeriod \in {3599, 3600} :
        LET new == [delegate |-> delegate, maxSlippage |-> maxSlippage,
                    maxRebalanceAmount |-> maxRebalanceAmount,
                    rebalanceThreshold |-> rebalanceThreshold,
                    cooldownPeriod |-> cooldownPeriod, isActive |-> TRUE]
            r == setDelegationPolicy(PMState, sender, u, delegate, maxSlippage,
                                     maxRebalanceAmount, rebalanceThreshold,
                                     cooldownPeriod)
        IN portfolios[u].isActive =>
              /\ r.ok <=> WithinLimits(new)
              /\ ~r.ok => r.st = PMState
              /\ r.ok => r.st = [PMState EXCEPT !.delegationPolicies[u] = new]

\* C23: setDelegationPolicy reverts on a null delegate, maxSlippage > 1000,
\* rebalanceThreshold > 1000 or cooldownPeriod < 3600 and leaves the stored
\* policy as it was; otherwise it replaces the user's whole policy; so every
\* active policy has a non-null delegate, maxSlippage <= 1000,
\* rebalanceThreshold <= 1000 and cooldownPeriod >= 3600.
C23_PolicyWithinLimits ==
    /\ [](ActivePoliciesWithinLimits /\ SetPolicyDecides)
    /\ [][\A u \in Users :
             delegationPolicies'[u] # delegationPolicies[u] =>
                \/ /\ ret'.op = "setDelegationPolicy"
                   /\ ret'.args[2] = u
                   /\ delegationPolicies'[u] =
                         [delegate |-> ret'.args[3], maxSlippage |-> ret'.args[4],
                          maxRebalanceAmount |-> ret'.args[5],
                          rebalanceThreshold |-> ret'.args[6],
                          cooldownPeriod |-> ret'.args[7], isActive |-> TRUE]
                \/ /\ ret'.op = "revokeDelegation"
                   /\ delegationPolicies'[u] =
                         [delegationPolicies[u] EXCEPT !.isActive = FALSE]]_vars

\* a policy has just replaced another one, and the rejected values are
\* refused on it
C23_Witness ==
    /\ ret.op = "setDelegationPolicy"
    /\ delegationPolicies["u1"].isActive
    /\ delegationPolicies["u1"].cooldownPeriod = 5400
    /\ delegationPolicies["u1"].rebalanceThreshold = 0
    /\ portfolios["u1"].lastRebalance > 0
    /\ ~setDelegationPolicy(PMState, "u1", "u1", Agent, 50, 1000, 100, 3599).ok
    /\ ~setDelegationPolicy(PMState, "u1", "u1", Null, 50, 1000, 100, 3600).ok
    /\ setDelegationPolicy(PMState, "u1", "u1", Agent, 50, 1000, 100, 3600).ok

----------------------------------------------------------------------------
(* Claims on who writes balances and the portfolio's stamp *)

IsActiveDelegate(sender, u) ==
    /\ delegationPolicies[u].isActive
    /\ sender = delegationPolicies[u].delegate

DelegateDecides ==
    \A u \in Users : \A sender \in {u, Admin, Agent, Rebalancer, Eve} :
        /\ \A k \in Tokens :
              LET r == updateBalance(PMState, sender, u, k, 100) IN
              /\ r.ok <=> IsActiveDelegate(sender, u)
              /\ ~r.ok => r.st = PMState
        /\ LET r == executeRebalance(PMState, now, sender, u, 1000) IN
           /\ r.ok => IsActiveDelegate(sender, u)
           /\ ~r.ok => r.st = PMState

\* C24: a user's balances and the portfolio's totalValue and lastRebalance
\* change only by updateBalance / executeRebalance called by the delegate of
\* the user's active policy; a call by anyone else (the user, the admin, an
\* earlier delegate) or under an inactive policy reverts and changes nothing.
C24_OnlyActiveDelegateWrites ==
    /\ []DelegateDecides
    /\ [][\A u \in Users :
             /\ userBalances'[u] # userBalances[u] =>
                   /\ ret'.op = "updateBalance"
                   /\ ret'.args[2] = u
                   /\ IsActiveDelegate(ret'.args[1], u)
             /\ (\/ portfolios'[u].totalValue # portfolios[u].totalValue
                 \/ portfolios'[u].lastRebalance # portfolios[u].lastRebalance) =>
                   /\ ret'.op = "executeRebalance"
                   /\ ret'.args[2] = u
                   /\ IsActiveDelegate(ret'.args[1], u)]_vars

\* the rebalancer, delegate of the active policy, has just written a balance
\* of a portfolio that the agent, an earlier delegate, had stamped; the
\* agent, the user and the admin are now refused
C24_Witness ==
    /\ ret.op = "updateBalance"
    /\ ret.args[1] = Rebalancer
    /\ IsActiveDelegate(Rebalancer, "u1")
    /\ userBalances["u1"]["tA"] = 100
    /\ Len(rebalanceExecuted) > 0
    /\ rebalanceExecuted[1][2] = Agent
    /\ \A sender \in {Agent, "u1", Admin} :
          /\ ~updateBalance(PMState, sender, "u1", "tA", 100).ok
          /\ ~executeRebalance(PMState, now, sender, "u1", 1000).ok

----------------------------------------------------------------------------
(* Claims on pausing an action *)

Paused(C, aid) == [C EXCEPT !.rb.rebalanceActions[aid].executed = TRUE]

PauseDecides ==
    \A aid \in ActionIds :
        /\ \A sender \in {Admin, Agent, "u1", Eve} :
              LET r == emergencyPause(RBPM, sender, aid) IN
              /\ r.ok <=> (sender = Admin /\ aid \in DOMAIN rebalanceActions)
              /\ ~r.ok => r.st = RBPM
              /\ r.ok => r.st = Paused(RBPM, aid)
        /\ \A sender \in {Deployer, Agent, "u1", Eve} :
              LET f == IgnisX_emergencyPause(IgnisXState, sender, aid) IN
              /\ f.ok <=> (sender = Deployer /\ aid \in DOMAIN rebalanceActions)
              /\ ~f.ok => f.st = IgnisXState
              /\ f.ok => f.st = Paused(IgnisXState, aid)

\* C25: emergencyPause is for the owner only and reverts on an unknown
\* action; when it goes through it sets the action's executed flag and
\* leaves every balance, the portfolio's totalValue and lastRebalance and
\* the action's legs as they were.
C25_PauseOnlyMarks ==
    /\ []PauseDecides
    /\ [][(ret' # ret /\ ret'.op = "emergencyPause") =>
             LET aid == ret'.args[2] IN
             /\ ret'.args[1] = Admin
             /\ aid \in DOMAIN rebalanceActions
             /\ rebalanceActions' =
                   [rebalanceActions EXCEPT ![aid].executed = TRUE]
             /\ UNCHANGED <<userBalances, portfolios, delegationPolicies,
                            rebalanceExecuted, actionExecuted>>]_vars

\* an action of u1 with a swap leg done has just been paused: its flag is
\* set, it was never completed and the portfolio carries no stamp
C25_Witness ==
    /\ ret.op = "emergencyPause"
    /\ rebalanceActions[ret.args[2]].executed
    /\ rebalanceActions[ret.args[2]].user = "u1"
    /\ \A i \in 1..Len(actionExecuted) : actionExecuted[i][1] # ret.args[2]
    /\ delegationPolicies["u1"].isActive
    /\ userBalances["u1"]["tB"] = 99
    /\ portfolios["u1"].lastRebalance = 0
    /\ ~emergencyPause(RBPM, Agent, ret.args[2]).ok

----------------------------------------------------------------------------
(* Claims on revoking the policy and revoking a session *)

PolicyOff(P, u) == [P EXCEPT !.delegationPolicies[u].isActive = FALSE]

DisableLeavesSessions ==
    \A u \in Users :
        /\ \A sender \in {u, Deployer} :
              LET r == disableAutopilot(IgnisXState, sender, u) IN
              /\ r.ok
              /\ r.st = [IgnisXState EXCEPT !.pm = PolicyOff(PMState, u)]
              /\ \A sid \in DOMAIN delegationSessions :
                    isSessionValid(r.st.lit, now, sid)
                        = isSessionValid(LitState, now, sid)
        /\ \A sender \in {u, Admin} :
              LET r == revokeDelegation(PMState, sender, u) IN
              r.ok /\ r.st = PolicyOff(PMState, u)

\* C26: the policy and the sessions are revoked apart: disableAutopilot and
\* revokeDelegation only clear isActive of the user's policy and leave every
\* session as it was, so isSessionValid answers as before;
\* revokeDelegationSession leaves the policies and setDelegationPolicy the
\* sessions as they were.
C26_RevokedApart ==
    /\ []DisableLeavesSessions
    /\ [][/\ (ret' # ret /\ ret'.op \in {"disableAutopilot", "revokeDelegation"})
                => /\ UNCHANGED <<litVars, rbVars>>
                   /\ PMState' = PolicyOff(PMState, ret'.args[2])
          /\ (ret' # ret /\ ret'.op = "revokeDelegationSession")
                => /\ UNCHANGED <<pmVars, rbVars>>
                   /\ ~delegationSessions'[ret'.args[2]].isActive
          /\ (ret' # ret /\ ret'.op = "setDelegationPolicy")
                => /\ UNCHANGED <<litVars, rbVars>>
                   /\ delegationPolicies'[ret'.args[2]].isActive]_vars

\* the autopilot of u1 has just been disabled: the policy is off and the
\* session enableAutopilot made is still valid
C26_Witness ==
    /\ ret.op = "disableAutopilot"
    /\ ~delegationPolicies["u1"].isActive
    /\ delegationPolicies["u1"].delegate = Rebalancer
    /\ \E sid \in AutopilotSessions : isSessionValid(LitState, now, sid)

----------------------------------------------------------------------------
(* Claims on who may execute operations *)

IsDelegate(sender, sid) ==
    /\ sid \in DOMAIN delegationSessions
    /\ sender = delegationSessions[sid].delegate

OnlyDelegateExecutes ==
    \A sender \in Callers, sid \in SessionIds :
        ~IsDelegate(sender, sid) =>
            /\ \A op \in Ops :
                  LET r == executeOperation(LitState, now, sender, sid, op) IN
                  ~r.ok /\ r.st = LitState
            /\ \A operations \in Batches :
                  LET r == batchExecuteOperations(LitState, now, sender, sid,
                                                  operations, Len(operations))
                  IN ~r.ok /\ r.st = LitState

\* C27: executeOperation and batchExecuteOperations take effect only when
\* the caller is the session's delegate; a call by anyone else, the session's
\* user and the admin included, reverts and leaves operationsUsed, nonce and
\* the used signatures as they were.
C27_OnlyDelegateExecutes ==
    /\ []OnlyDelegateExecutes
    /\ [][/\ (ret' # ret /\ ret'.op \in {"executeOperation", "batchExecuteOperations"})
                => IsDelegate(ret'.args[1], ret'.args[2])
          /\ \A sid \in DOMAIN delegationSessions :
                delegationSessions'[sid].operationsUsed
                        # delegationSessions[sid].operationsUsed
                   => /\ ret'.op \in {"executeOperation", "batchExecuteOperations"}
                      /\ ret'.args[2] = sid
                      /\ IsDelegate(ret'.args[1], sid)]_vars

\* the agent has just executed an operation of the session; the next one is
\* accepted from the agent and refused from the user, the admin and a stranger
C27_Witness ==
    /\ ret.op = "executeOperation"
    /\ ret.args[1] = Agent
    /\ delegationSessions[ret.args[2]].operationsUsed = 1
    /\ \E op \in Ops :
          /\ executeOperation(LitState, now, Agent, ret.args[2], op).ok
          /\ \A sender \in {"u1", Admin, Eve} :
                ~executeOperation(LitState, now, sender, ret.args[2], op).ok

----------------------------------------------------------------------------
(* Claims on the checks a batch goes through first *)

BatchSigs(operations) ==
    {operations[i].signature : i \in 1..Len(operations)}

HasRoom(sid, k) ==
    delegationSessions[sid].operationsUsed + k
        <= delegationSessions[sid].maxOperations

\* what the delegate's batch meets, whatever the operations are worth
BatchPrechecks ==
    \A sid \in DOMAIN delegationSessions, operations \in Batches,
       extra \in {0, 1} :
        LET k == Len(operations)
            r == batchExecuteOperations(LitState, now,
                                        delegationSessions[sid].delegate, sid,
                                        operations, k + extra)
        IN /\ extra = 1 => (~r.ok /\ r.err = "Invalid input length")
           /\ (extra = 0 /\ k = 0) => (~r.ok /\ r.err = "No operations provided")
           /\ (extra = 0 /\ k > 0 /\ ~HasRoom(sid, k))
                 => (~r.ok /\ r.err = "Exceeds max operations")
           /\ (\E i, j \in 1..k :
                  i < j /\ operations[i].signature = operations[j].signature)
                 => ~r.ok
           /\ ~r.ok => r.st = LitState
           /\ r.ok =>
                 /\ r.st.delegationSessions[sid].operationsUsed
                       = delegationSessions[sid].operationsUsed + k
                 /\ r.st.usedSignatures = usedSignatures \cup BatchSigs(operations)
                 /\ BatchSigs(operations) \cap usedSignatures = {}
                 /\ Cardinality(BatchSigs(operations)) = k

\* C28: batchExecuteOperations is refused before any verification when the
\* batch is empty, when the numbers of operations and of hashes differ, or
\* when operationsUsed + the length of the batch exceeds maxOperations; a
\* batch of k operations that goes through adds exactly k to operationsUsed
\* and marks exactly its k signatures used; a batch carrying a signature
\* twice fails as a whole.
C28_BatchPrechecks ==
    /\ []BatchPrechecks
    /\ [][(ret' # ret /\ ret'.op = "batchExecuteOperations") =>
            LET sid == ret'.args[2]
                k   == Len(ret'.args[3])
            IN /\ k > 0
               /\ ret'.args[4] = k
               /\ HasRoom(sid, k)
               /\ Cardinality(usedSignatures') = Cardinality(usedSignatures) + k
               /\ delegationSessions'[sid].operationsUsed
                     <= delegationSessions[sid].maxOperations]_vars

\* a batch of two operations has just filled its session; offered to a
\* valid session with room for one, the same batch, whose signatures are
\* now used, is refused for want of room
C28_Witness ==
    /\ ret.op = "batchExecuteOperations"
    /\ Len(ret.args[3]) = 2
    /\ delegationSessions[ret.args[2]].operationsUsed = 2
    /\ usedSignatures = BatchSigs(ret.args[3])
    /\ Cardinality(usedSignatures) = 2
    /\ \E sid \in DOMAIN delegationSessions :
          /\ sid # ret.args[2]
          /\ delegationSessions[sid].maxOperations = 1
          /\ isSessionValid(LitState, now, sid)
          /\ batchExecuteOperations(LitState, now, Agent, sid, ret.args[3], 2).err
                = "Exceeds max operations"

----------------------------------------------------------------------------
(* Claims on the order of the checks of needsRebalancing *)

CooldownUnmet(u) ==
    now < portfolios[u].lastRebalance + delegationPolicies[u].cooldownPeriod

NotToBeAsked(u) == ~delegationPolicies[u].isActive \/ CooldownUnmet(u)

\* C29: needsRebalancing answers false, without an error, under an inactive
\* policy or before the cooldown has elapsed, and it does so before looking
\* at the length of the allocations: a list of the wrong length gets false
\* then, and the length error only under an active policy with the cooldown
\* elapsed.
C29_EarlyFalseBeforeLength ==
    \A u \in Users, currentAllocations \in AllocLists :
        LET r == needsRebalancing(PMState, now, u, currentAllocations)
            mismatch == Len(currentAllocations) # Len(portfolios[u].assets)
        IN /\ NotToBeAsked(u) => (r.ok /\ r.val = FALSE)
           /\ (~NotToBeAsked(u) /\ mismatch)
                 => (~r.ok /\ r.err = "Invalid allocation length")
           /\ ~r.ok => (~NotToBeAsked(u) /\ mismatch)

----------------------------------------------------------------------------
(* Claims on what a swap leg writes *)

\* the balances of user u after a swap of leg swap with output amount
AfterSwap(balances, swap, amount) ==
    [k \in DOMAIN balances |->
        IF k = swap.tokenOut THEN amount
        ELSE IF k = swap.tokenIn THEN 0
        ELSE balances[k]]

SwapWrites ==
    \A leg \in OpenSwapLegs, amount \in {99, 100} :
        LET action == rebalanceActions[leg[1]]
            swap   == action.swaps[leg[2] + 1]
            r      == executeSwap(RBPM, Agent, leg[1], leg[2], amount)
        IN r.ok =>
              r.st = [RBPM EXCEPT !.pm.userBalances[action.user] =
                                      AfterSwap(@, swap, amount)]

\* C30: after an executeSwap that went through, the user's balance of the
\* leg's tokenIn is 0 and that of its tokenOut is actualAmountOut, written
\* over whatever was held (actualAmountOut when the two tokens are the same);
\* no other balance, no action record and no portfolio has changed.
C30_SwapOverwrites ==
    /\ []SwapWrites
    /\ [][(ret' # ret /\ ret'.op = "executeSwap") =>
             LET action == rebalanceActions[ret'.args[2]]
                 swap   == action.swaps[ret'.args[3] + 1]
                 u      == action.user
             IN /\ userBalances'[u][swap.tokenOut] = ret'.args[4]
                /\ swap.tokenIn # swap.tokenOut => userBalances'[u][swap.tokenIn] = 0
                /\ \A v \in Users, k \in Tokens :
                      (v # u \/ k \notin {swap.tokenIn, swap.tokenOut})
                         => userBalances'[v][k] = userBalances[v][k]
                /\ UNCHANGED <<rebalanceActions, portfolios, delegationPolicies,
                               rebalanceExecuted, actionExecuted,
                               authorizedAgents>>]_vars

\* a swap of tA for tA has just gone through at 100: the balance of tA is
\* 100, and the 99 of tB that an earlier swap credited are as they were
C30_Witness ==
    /\ ret.op = "executeSwap"
    /\ rebalanceActions[ret.args[2]].swaps[ret.args[3] + 1] = Swap2
    /\ ret.args[4] = 100
    /\ userBalances["u1"]["tA"] = 100
    /\ userBalances["u1"]["tB"] = 99

----------------------------------------------------------------------------
(* Claims on the drift computed from balances and prices *)

\* balances[i] * price(chain_i, tokens[i])
PricedValue(u, tokens, currentBalances, i) ==
    currentBalances[i]
        * chainTokenPrices[<<portfolios[u].assets[i].chainId, tokens[i]>>]

RECURSIVE PricedTotal(_, _, _, _)
PricedTotal(u, tokens, currentBalances, i) ==
    IF i > Len(tokens) THEN 0
    ELSE PricedValue(u, tokens, currentBalances, i)
            + PricedTotal(u, tokens, currentBalances, i + 1)

PricedShare(u, tokens, currentBalances, i) ==
    LET total == PricedTotal(u, tokens, currentBalances, 1) IN
    IF total > 0
    THEN (PricedValue(u, tokens, currentBalances, i) * 10000) \div total
    ELSE 0

\* C31: calculateDrift fails when tokens, balances and the portfolio's
\* assets differ in length; otherwise it returns, for each i,
\* |current_i - target_i| with value_i = balances[i] * price(chain_i,
\* tokens[i]), total the sum of the value_i and current_i =
\* value_i * 10000 / total (integer division) when total > 0, else 0; with
\* every price unset the drift of each asset is its target.
C31_DriftFromPricedValues ==
    \A tokens \in TokenLists, currentBalances \in BalanceLists :
        LET r == calculateDrift(RBPM, "u1", tokens, currentBalances)
            assets == portfolios["u1"].assets
        IN IF Len(tokens) # Len(currentBalances) \/ Len(tokens) # Len(assets)
           THEN ~r.ok
           ELSE /\ r.ok
                /\ \A i \in 1..Len(tokens) :
                      r.val[i] = Distance(PricedShare("u1", tokens,
                                                      currentBalances, i),
                                          assets[i].targetPercentage)

----------------------------------------------------------------------------
(* Claims on the allowlist of agents *)

CreateActionDecides ==
    \A sender \in AgentCallers \cup {"u1", Rebalancer}, totalValue \in {0, 1, 1000} :
        LET r == createRebalanceAction(RBPM, now, blockNumber, sender, "u1",
                                       <<Swap1>>, <<Bridge1>>, totalValue)
        IN /\ r.ok <=> (sender \in authorizedAgents /\ totalValue > 0)
           /\ ~r.ok => r.st = RBPM
           /\ r.ok => r.actionId \in DOMAIN r.st.rb.rebalanceActions

AllowlistDecides ==
    \A sender \in AgentCallers \cup {"u1"}, agent \in {Agent, Eve},
       authorized \in BOOLEAN :
        LET r == setAuthorizedAgent(RBPM, sender, agent, authorized)
        IN /\ r.ok <=> sender = Admin
           /\ ~r.ok => r.st = RBPM
           /\ r.ok => (agent \in r.st.rb.authorizedAgents <=> authorized)

\* C32: createRebalanceAction takes effect only when its caller is on the
\* allowlist of authorized agents at that moment and totalValue > 0; a
\* caller that is not listed, or that the owner has taken off the list, or
\* a totalValue of 0, fails and stores no action; only the owner changes
\* the allowlist.
C32_OnlyListedAgentsCreate ==
    /\ [](CreateActionDecides /\ AllowlistDecides)
    /\ [][/\ rebalanceActions' # rebalanceActions =>
                /\ ret'.op = "createRebalanceAction"
                /\ ret'.args[1] \in authorizedAgents
                /\ ret'.args[5] > 0
          /\ authorizedAgents' # authorizedAgents =>
                /\ ret'.op = "setAuthorizedAgent"
                /\ ret'.args[1] = Admin]_vars

\* the agent created an action while listed and the owner has just taken it
\* off the list: the same call now fails
C32_Witness ==
    /\ ret.op = "setAuthorizedAgent"
    /\ ret.args = <<Admin, Agent, FALSE>>
    /\ Agent \notin authorizedAgents
    /\ \E aid \in DOMAIN rebalanceActions :
          rebalanceActions[aid].timestamp = now
    /\ ~createRebalanceAction(RBPM, now, blockNumber, Agent, "u1",
                              <<Swap1>>, <<Bridge1>>, 1000).ok

----------------------------------------------------------------------------
(* Claims on the counters of a session *)

WithinBudget ==
    \A sid \in DOMAIN delegationSessions :
        /\ 0 <= delegationSessions[sid].operationsUsed
        /\ delegationSessions[sid].operationsUsed
              <= delegationSessions[sid].maxOperations

\* C33: every session has 0 <= operationsUsed <= maxOperations; a stored
\* session stays stored, its operationsUsed never decreases, and its
\* operationsUsed and nonce change only in a successful executeOperation or
\* batchExecuteOperations on that very session, never in
\* verifySignedOperation alone, in the creation of another session or in
\* revokeDelegationSession.
C33_CountersMoveOnlyOnExecute ==
    /\ []WithinBudget
    /\ [][\A sid \in DOMAIN delegationSessions :
             /\ sid \in DOMAIN delegationSessions'
             /\ delegationSessions'[sid].operationsUsed
                   >= delegationSessions[sid].operationsUsed
             /\ (\/ delegationSessions'[sid].operationsUsed
                       # delegationSessions[sid].operationsUsed
                 \/ delegationSessions'[sid].nonce
                       # delegationSessions[sid].nonce)
                   => /\ ret'.op \in {"executeOperation",
                                      "batchExecuteOperations"}
                      /\ ret'.args[2] = sid]_vars

\* a session whose budget of two operations is used up has just been
\* revoked, with another session of the same owner stored beside it
C33_Witness ==
    /\ ret.op = "revokeDelegationSession"
    /\ \E sid \in DOMAIN delegationSessions :
          /\ ret.args[2] = sid
          /\ ~delegationSessions[sid].isActive
          /\ delegationSessions[sid].maxOperations = MaxOps
          /\ delegationSessions[sid].operationsUsed = MaxOps
          /\ \E other \in DOMAIN delegationSessions \ {sid} :
                delegationSessions[other].operationsUsed = 0

----------------------------------------------------------------------------
(* Claims on verifying an operation outside an execution *)

\* the operation of the last standalone verification is refused from now on,
\* as a replay wherever the session still passes
VerifiedIsSpent ==
    ret.op = "verifySignedOperation" =>
        LET sid == ret.args[1]
            op  == ret.args[2]
            v   == verifySignedOperation(LitState, now, sid, op)
        IN /\ op.signature \in usedSignatures
           /\ ~v.ok
           /\ isSessionValid(LitState, now, sid) =>
                 v.err = "Signature already used"
           /\ \A sender \in Callers :
                 LET e == executeOperation(LitState, now, sender, sid, op) IN
                 /\ ~e.ok
                 /\ e.st = LitState
                 /\ (isSessionValid(LitState, now, sid)
                        /\ sender = delegationSessions[sid].delegate)
                       => e.err = "Signature already used"

\* C34: verifySignedOperation has no restriction on its caller; after a
\* standalone verifySignedOperation(sessionId, op) that went through, a
\* second verifySignedOperation and an executeOperation with the same op
\* both fail as replays and operationsUsed stays as it was, and since a
\* used signature stays used the op can never be executed.
C34_VerifyAloneSpendsTheOp ==
    /\ [](VerifiedIsSpent /\ UsedIsRejected)
    /\ [][/\ ret'.op = "verifySignedOperation" /\ ret' # ret =>
                /\ delegationSessions' = delegationSessions
                /\ ret'.args[2].signature \notin usedSignatures
                /\ usedSignatures'
                      = usedSignatures \cup {ret'.args[2].signature}
          /\ usedSignatures \subseteq usedSignatures']_vars

\* the owner's well-signed operation with the session's nonce has just been
\* verified alone on a valid session with its whole budget left: the
\* delegate's executeOperation with it is refused as a replay
C34_Witness ==
    /\ ret.op = "verifySignedOperation"
    /\ ret.val = <<TRUE>>
    /\ ret.args[2] \in Honest
    /\ isSessionValid(LitState, now, ret.args[1])
    /\ delegationSessions[ret.args[1]].operationsUsed = 0
    /\ executeOperation(LitState, now, Agent, ret.args[1], ret.args[2]).err
          = "Signature already used"

----------------------------------------------------------------------------
(* Claims on enabling the autopilot as a whole *)

PolicyStepFails(maxSlippage, rebalanceThreshold, cooldownPeriod) ==
    \/ ~portfolios["u1"].isActive
    \/ maxSlippage > 1000
    \/ rebalanceThreshold > 1000
    \/ cooldownPeriod < 3600

SessionStepFails(sessionExpiry, maxOperations) ==
    sessionExpiry <= now \/ maxOperations = 0

EnableIsWhole ==
    \A sender \in {"u1", Deployer}, maxSlippage \in {50, 1001},
       rebalanceThreshold \in {100, 1001}, cooldownPeriod \in {3599, 3600},
       sessionExpiry \in {now, SessionDeadline}, maxOperations \in {0, MaxOps} :
        LET r == enableAutopilot(IgnisXState, now, sender, "u1", maxSlippage,
                                 1000, rebalanceThreshold, cooldownPeriod,
                                 sessionExpiry, maxOperations)
            fails == \/ PolicyStepFails(maxSlippage, rebalanceThreshold,
                                        cooldownPeriod)
                     \/ SessionStepFails(sessionExpiry, maxOperations)
        IN /\ r.ok <=> ~fails
           /\ ~r.ok =>
                 /\ r.st.lit.delegationSessions = delegationSessions
                 /\ r.st.lit.userNonces = userNonces
                 /\ r.st.pm.delegationPolicies = delegationPolicies
                 /\ r.st = IgnisXState

----------------------------------------------------------------------------
(* Claims on the facade's legs as whole transactions *)

\* r, the outcome of a facade call on (sid, op) whose leg x failed after the
\* operation was accepted: nothing of the session authority is written and
\* the operation is accepted again
LegFailureIsVoid(r, x, sid, op) ==
    (acceptOperation(IgnisXState, now, sid, op).ok /\ ~x.ok) =>
        /\ ~r.ok
        /\ r.err = x.err
        /\ r.st.lit.delegationSessions = delegationSessions
        /\ r.st.lit.usedSignatures = usedSignatures
        /\ r.st = IgnisXState
        /\ acceptOperation(r.st, now, sid, op).ok

FacadeLegsAreWhole ==
    \A aid \in ActionIds, sid \in DOMAIN delegationSessions, op \in FacadeOps :
        LET a == acceptOperation(IgnisXState, now, sid, op) IN
        /\ \A index \in {0, 1}, amount \in {98, 99} :
              LegFailureIsVoid(
                  IgnisX_executeSwap(IgnisXState, now, Agent, aid, index,
                                     amount, sid, op),
                  executeSwap(a.st, Facade, aid, index, amount), sid, op)
        /\ \A index \in {0, 1} :
              LegFailureIsVoid(
                  IgnisX_executeBridge(IgnisXState, now, Agent, aid, index,
                                       50, sid, op),
                  executeBridge(a.st, Facade, aid, index, 50), sid, op)
        /\ LegFailureIsVoid(
              completeRebalancing(IgnisXState, now, Agent, aid, sid, op),
              completeRebalanceAction(a.st, now, Facade, aid), sid, op)

\* C36: the facade's executeSwap, executeBridge and completeRebalancing are
\* atomic: when the leg step fails (slippage, bad index, terminal action,
\* inactive policy, cooldown unmet) after the signed operation was accepted,
\* operationsUsed and the used signatures are as before the call, so the
\* same signed operation can be submitted again; the used signatures change
\* only in a call that goes through.
C36_FacadeLegsAtomic ==
    /\ []FacadeLegsAreWhole
    /\ [][(\/ usedSignatures' # usedSignatures
           \/ delegationSessions' # delegationSessions) => ret' # ret]_vars

\* the facade holds a valid session and is an authorized agent, an open
\* action of u1 exists, and a swap below the leg's minimum fails on the
\* slippage after the operation is accepted
C36_Witness ==
    \E aid \in DOMAIN rebalanceActions, sid \in DOMAIN delegationSessions,
       op \in FacadeOps :
        /\ acceptOperation(IgnisXState, now, sid, op).ok
        /\ delegationSessions[sid].operationsUsed = 1
        /\ IgnisX_executeSwap(IgnisXState, now, Agent, aid, 0, 98, sid,
                              op).err = "Slippage too high"
        /\ completeRebalancing(IgnisXState, now, Agent, aid, sid, op).err
              = "Cooldown period not met"

----------------------------------------------------------------------------
(* Claims on legs and the action record *)

LegCalls == {"executeSwap", "executeBridge"}

\* the leg that went through last goes through again as long as nothing
\* else has happened
LegRepeats ==
    /\ ret.op = "executeSwap" =>
          executeSwap(RBPM, ret.args[1], ret.args[2], ret.args[3],
                      ret.args[4]).ok
    /\ ret.op = "executeBridge" =>
          executeBridge(RBPM, ret.args[1], ret.args[2], ret.args[3],
                        ret.args[4]).ok

CanComplete(C, t, aid) == completeRebalanceAction(C, t, Agent, aid).ok

\* C37: executeSwap and executeBridge never change the action record (its
\* legs, totalValue and executed flag), so a leg index that went through
\* once goes through again on the same open action, and whether
\* completeRebalanceAction goes through does not depend on which or how
\* many legs were executed, none included.
C37_LegsLeaveTheAction ==
    /\ []LegRepeats
    /\ [][/\ ret'.op \in LegCalls => rebalanceActions' = rebalanceActions
          /\ rebalanceActions' # rebalanceActions =>
                ret'.op \in {"createRebalanceAction",
                             "completeRebalanceAction"}
          /\ ret'.op \in LegCalls =>
                \A aid \in DOMAIN rebalanceActions :
                    CanComplete(RBPM', now', aid) = CanComplete(RBPM, now, aid)
          /\ (ret'.op = "completeRebalanceAction" /\ ret' # ret) =>
                CanComplete(RBPM, now, ret'.args[2])]_vars

\* an open action whose bridge leg has just gone through after its swap leg:
\* the record holds both legs, the same bridge goes through again and the
\* action can be completed
C37_Witness ==
    /\ ret.op = "executeBridge"
    /\ LET aid == ret.args[2] IN
       /\ ~rebalanceActions[aid].executed
       /\ rebalanceActions[aid].swaps = <<Swap1>>
       /\ rebalanceActions[aid].bridges = <<Bridge1>>
       /\ userBalances["u1"]["tB"] = 99
       /\ executeBridge(RBPM, Agent, aid, 0, 50).ok
       /\ CanComplete(RBPM, now, aid)

----------------------------------------------------------------------------
(* Claims on the expiry of a session *)

\* a session that is neither revoked nor used up
Unspent(sid) ==
    /\ delegationSessions[sid].isActive
    /\ delegationSessions[sid].operationsUsed
          < delegationSessions[sid].maxOperations

ExpiryIsInclusive ==
    /\ \A expiry \in {now - 1, now, now + 1} :
          createDelegationSession(LitState, now, "u1", Agent, expiry, "ph1",
                                  1).ok <=> expiry > now
    /\ \A sid \in DOMAIN delegationSessions :
          Unspent(sid) =>
                LET s == delegationSessions[sid] IN
                /\ isSessionValid(LitState, now, sid) <=> now <= s.expiry
                /\ \A data \in Data :
                      LET op == CurrentOp(sid, data)
                          e  == executeOperation(LitState, now, s.delegate,
                                                 sid, op)
                      IN /\ now > s.expiry => e.err = "Session expired"
                         /\ (now <= s.expiry
                                /\ op.signature \notin usedSignatures) => e.ok

\* C38: expiry is lazy and inclusive.  createDelegationSession rejects an
\* expiry <= now; a session that is neither revoked nor used up is valid
\* and accepts operations while now <= expiry, the instant now = expiry
\* included, and is invalid at every now > expiry, without any call having
\* changed its stored record: the passing of time writes no session.
C38_ExpiryLazyInclusive ==
    /\ []ExpiryIsInclusive
    /\ [][ret'.op = "newBlock" =>
             delegationSessions' = delegationSessions]_vars

\* at the very instant of its expiry a session has just executed an
\* operation
C38_Witness ==
    /\ ret.op = "executeOperation"
    /\ delegationSessions[ret.args[2]].expiry = now
    /\ delegationSessions[ret.args[2]].operationsUsed = 1

----------------------------------------------------------------------------
(* Claims on who writes a portfolio and its policy *)

OwnerCalls ==
    {"createPortfolio", "updatePortfolio", "addAsset", "removeAsset",
     "setDelegationPolicy", "revokeDelegation"}

\* the identities that are neither u nor the admin: the delegate of u's
\* policy, the rebalancer, the agent, another owner, a stranger
Others(u) ==
    ({delegationPolicies[u].delegate, Rebalancer, Agent, Eve} \cup Users)
        \ {u, Admin, Null}

Refused(r) == ~r.ok /\ r.err = "Not portfolio owner" /\ r.st = PMState

OthersAreRefused ==
    \A u \in Users : \A sender \in Others(u) :
        /\ \A assets \in {Half, Whole} :
              /\ Refused(createPortfolio(PMState, sender, u, assets))
              /\ Refused(updatePortfolio(PMState, sender, u, assets))
        /\ \A k \in Tokens :
              /\ Refused(addAsset(PMState, sender, u, k, 1, 5000))
              /\ Refused(removeAsset(PMState, sender, u, k, 1))
        /\ Refused(setDelegationPolicy(PMState, sender, u, sender, 50, 1000,
                                       100, 3600))
        /\ Refused(revokeDelegation(PMState, sender, u))

\* C39: createPortfolio, updatePortfolio, addAsset, removeAsset,
\* setDelegationPolicy and revokeDelegation for an owner go through only
\* when called by that owner or by the admin; called by anyone else, the
\* owner's delegate in particular, they are rejected with the state
\* unchanged, so the assets and the active flag of a portfolio and the
\* policy change only in such a call by the owner or the admin.
C39_OnlyOwnerOrAdminWrites ==
    /\ []OthersAreRefused
    /\ [][\A u \in Users :
             (\/ portfolios'[u].assets # portfolios[u].assets
              \/ portfolios'[u].isActive # portfolios[u].isActive
              \/ delegationPolicies'[u] # delegationPolicies[u])
                => /\ ret'.op \in OwnerCalls
                   /\ ret'.args[1] \in {u, Admin}
                   /\ ret'.args[2] = u]_vars

\* u1 holds a portfolio and has just named the agent as its delegate: the
\* delegate's own updatePortfolio and revokeDelegation are refused
C39_Witness ==
    /\ ret.op = "setDelegationPolicy"
    /\ portfolios["u1"].isActive
    /\ delegationPolicies["u1"].isActive
    /\ delegationPolicies["u1"].delegate = Agent
    /\ Agent \in Others("u1")
    /\ updatePortfolio(PMState, Agent, "u1", Whole).err = "Not portfolio owner"
    /\ revokeDelegation(PMState, Agent, "u1").err = "Not portfolio owner"

----------------------------------------------------------------------------
(* Claims on the signer outside the chain *)

\* signing is refused on a session that is inactive, expired or used up
SigningIsRefused ==
    \A isActive \in BOOLEAN, op \in SignRequests :
        LET s == [session EXCEPT !.isActive = isActive]
            r == signOperation_enter(s, now, op.type, op.data)
        IN (\/ ~s.isActive
            \/ DateNow(now) > s.expiry * 1000
            \/ s.operationsUsed >= s.maxOperations) => ~r.ok

\* C40 (as claimed): signOperation refuses to sign when the session is
\* inactive, expired or has operationsUsed >= maxOperations; each
\* successful signing stamps the operation with the current nonce and then
\* counts nonce and operationsUsed up by one, so the operations signed
\* carry the nonces 0, 1, 2, ... without gap or repeat and operationsUsed
\* never exceeds maxOperations.
C40_SignedNoncesInOrder ==
    /\ SigningIsRefused
    /\ session.operationsUsed <= session.maxOperations
    /\ session.nonce = Len(signedOperations)
    /\ session.operationsUsed = Len(signedOperations)
    /\ \A i \in 1..Len(signedOperations) : signedOperations[i].nonce = i - 1

============================================================================
